---- MODULE Spec2Model ----
(***************************************************************************)
(* Verification model of three components of the netboot code vendored in  *)
(* arktos-vm-runtime:                                                      *)
(*   - dhcp6/pool RandomAddressPool (reserve / release / expiry sweep),    *)
(*   - pixiecore Server.Serve / Server.Shutdown (the error funnel),        *)
(*   - pixiecore ServerV6.serveDHCP with the dhcp6 filter and builder.     *)
(* PoolSpec exercises the pool, ServerSpec and FairServerSpec the server,  *)
(* DhcpSpec the DHCPv6 worker on top of the pool.                          *)
(***************************************************************************)
EXTENDS Integers, Sequences, FiniteSets, TLC

(***************************************************************************)
(* Bounds of the model.                                                    *)
(***************************************************************************)
\* largest poolSize handed to NewRandomAddressPool
MaxPoolSize == 2
\* the validLifetime (in clock units) handed to NewRandomAddressPool
ValidLifetime == 2
\* the clock is advanced up to this instant
MaxTime == 2
\* the expiration queue holds at most this many entries
MaxQueue == 2
\* longest interfaceIDs list handed to one call
MaxIfaces == 2

\* first host number of the pool (poolStartAddress, low bits)
PoolStart == 1

\* client identifiers and interface identifiers are byte strings; the two
\* tuples (<<1>>, <<2, 3>>) and (<<1, 2>>, <<3>>) have the same concatenation
ClientIDs == {<<1>>, <<1, 2>>}
InterfaceIDs == {<<3>>, <<2, 3>>}

\* the interfaceIDs lists handed to a call: non-empty, without repetition
RECURSIVE ListsUpTo(_, _)
ListsUpTo(S, n) ==
    IF n = 0 \/ S = {} THEN {<<>>}
    ELSE {<<>>} \cup UNION {{<<x>> \o t : t \in ListsUpTo(S \ {x}, n - 1)} : x \in S}

IDLists == ListsUpTo(InterfaceIDs, MaxIfaces) \ {<<>>}

VARIABLES
    \* ---- RandomAddressPool ----
    poolSize,                       \* p.poolSize
    timeNow,                        \* the value p.timeNow() returned last
    identityAssociations,           \* p.identityAssociations: key -> association
    usedIps,                        \* p.usedIps
    identityAssociationExpirations, \* p.identityAssociationExpirations.q
    lastCall,                       \* the last pool call: arguments and results
    \* ---- Server ----
    spc,            \* the statement of Serve() that runs next
    errs,           \* s.errs: "nil" until Serve() makes the channel
    sink,           \* the values buffered in the channel s.errs
    socket,         \* per listener: "unbound", "open" or "closed"
    wpc,            \* per worker goroutine: "unstarted", "running", "sending", "done"
    retval,         \* the value Serve() returned
    returns,        \* number of times Serve() returned
    first,          \* the first value delivered to the channel
    shutdownEarly,  \* Shutdown() was called before Serve() was
    shutdownDuring, \* Shutdown() was called while Serve() was in progress
    \* ---- ServerV6 ----
    v6pc,           \* the serveDHCP goroutine: "running", "exited", "panicked"
    v6serve,        \* ServerV6.Serve(): "waiting" at <-s.errs, or "returned"
    handled,        \* number of datagrams RecvDHCP has read
    lastPkt,        \* <<d>> for the datagram d read last, <<>> before the first
    lastReplies,    \* the responses handed to SendDHCP for lastPkt
    lastErr,        \* the err BuildResponse returned for lastPkt, "-" if not called
    \* ---- concurrent callers of the pool ----
    lock,           \* p.lock: 0 when free, else the goroutine that holds it
    calls,          \* per goroutine: the call it makes and how far it got
    \* ---- signed ids of the API booter ----
    signed,         \* the URL BootSpec signed, the key used and the id made
    presented,      \* the id of the last ReadBootFile call
    got,            \* what that call made of it: err and the URL inside
    followed,       \* the open or GET that call made, if any
    \* ---- the HTTP handlers ----
    hreq,           \* the request that was handled
    hresp,          \* the response: status code and what was written
    hbooter,        \* the calls the handler made to the Booter
    events,         \* the machine events the handlers recorded
    api,            \* a BootSpec call of the API booter: answer and result
    \* ---- a PacketBuilder of any preferred lifetime ----
    pbuilder,       \* the builder's PreferredLifetime and the T1, T2 it writes
    \* ---- one client's lease ----
    offered,        \* the address the last Advertise offered, and since when
    \* ---- StaticBooter ----
    sbooter,        \* the staticBooter StaticBooter made, or its error
    sgot,           \* the Machine and the result of the last BootSpec
    sread,          \* the id and the outcome of the last ReadBootFile
    \* ---- the packet codec ----
    cin,            \* the buffer and the length of the datagram read
    cpkt,           \* what Unmarshal made of it
    cout,           \* the bytes Marshal made of that packet
    cback           \* what Unmarshal made of those bytes

poolVars == <<poolSize, timeNow, identityAssociations, usedIps,
              identityAssociationExpirations, lastCall>>

serverVars == <<spc, errs, sink, socket, wpc, retval, returns, first,
                shutdownEarly, shutdownDuring>>

dhcpVars == <<v6pc, v6serve, handled, lastPkt, lastReplies, lastErr>>

concVars == <<lock, calls>>

signVars == <<signed, presented, got, followed>>

httpVars == <<hreq, hresp, hbooter, events, api>>

builderVars == <<pbuilder>>

leaseVars == <<offered>>

staticVars == <<sbooter, sgot, sread>>

codecVars == <<cin, cpkt, cout, cback>>

vars == <<poolVars, serverVars, dhcpVars, concVars, signVars, httpVars, builderVars, leaseVars, staticVars, codecVars>>

(***************************************************************************)
(* calculateIAIDHash: FNV-64a over the bytes of clientID followed by the   *)
(* bytes of interfaceID.  The hash state after both Write calls depends    *)
(* only on the concatenated byte stream, which is what the model keeps.    *)
(***************************************************************************)
calculateIAIDHash(clientID, interfaceID) == clientID \o interfaceID

\* calculateAssociationExpiration: now + validLifetime seconds
calculateAssociationExpiration(now) == now + ValidLifetime

\* the test of the sweep loop: the head is popped unless now is before expiresAt
ExpiredStrictlyAfter(now, expiresAt) == now > expiresAt
Expired(now, expiresAt) == ~(now < expiresAt)

\* uint64(len(p.usedIps)) == p.poolSize
PoolFullOneEarly(used, size) == Cardinality(used) + 1 >= size
PoolFull(used, size) == Cardinality(used) = size

\* delete(m, k) and m[k] = v on a Go map
MapDelete(m, k) == [x \in (DOMAIN m) \ {k} |-> m[x]]
MapPut(m, k, v) == [x \in (DOMAIN m) \cup {k} |-> IF x = k THEN v ELSE m[x]]

(***************************************************************************)
(* expireIdentityAssociations: pops the head of the queue while it has     *)
(* expired, deleting the key of the popped association and its address.    *)
(* st is [ias, used, q].                                                   *)
(***************************************************************************)
RECURSIVE expireIdentityAssociations(_, _)
expireIdentityAssociations(st, now) ==
    IF Len(st.q) < 1 THEN st
    ELSE LET expiration == Head(st.q)
             h == calculateIAIDHash(expiration.ia.ClientID, expiration.ia.InterfaceID)
         IN  IF ~Expired(now, expiration.expiresAt) THEN st
             ELSE expireIdentityAssociations(
                    [ias   |-> MapDelete(st.ias, h),
                     used  |-> st.used \ {expiration.ia.IPAddress},
                     q     |-> Tail(st.q)], now)

(***************************************************************************)
(* The loop of ReserveAddresses over interfaceIDs[k..].  st is             *)
(* [ias, used, q, ret, err, stuck]; picks[k]        is the host offset the *)
(* random draw settles on for interfaceIDs[k] (the draw is repeated until  *)
(* it hits a free address, so a pick that is in use marks the run stuck;   *)
(* where no draw is made the pick is 0).                                   *)
(***************************************************************************)
RECURSIVE ReserveLoop(_, _, _, _, _, _, _)
ReserveLoop(st, clientID, interfaceIDs, picks, k, now, size) ==
    IF k > Len(interfaceIDs) THEN st
    ELSE LET h == calculateIAIDHash(clientID, interfaceIDs[k])
         IN  IF h \in DOMAIN st.ias
             THEN ReserveLoop([st EXCEPT !.ret = Append(@, st.ias[h]),
                                         !.stuck = @ \/ picks[k] # 0],
                              clientID, interfaceIDs, picks, k + 1, now, size)
             ELSE IF PoolFull(st.used, size)
             THEN [st EXCEPT !.err = TRUE,
                             !.stuck = @ \/ \E j \in k..Len(picks) : picks[j] # 0]
             ELSE LET newIP == PoolStart + picks[k]
                  IN  IF newIP \in st.used THEN [st EXCEPT !.stuck = TRUE]
                      ELSE LET association == [ClientID |-> clientID,
                                               InterfaceID |-> interfaceIDs[k],
                                               IPAddress |-> newIP,
                                               CreatedAt |-> now]
                           IN  ReserveLoop(
                                 [st EXCEPT !.ias = MapPut(@, h, association),
                                            !.used = @ \cup {newIP},
                                            !.q = Append(@, [expiresAt |->
                                                    calculateAssociationExpiration(now),
                                                    ia |-> association]),
                                            !.ret = Append(@, association)],
                                 clientID, interfaceIDs, picks, k + 1, now, size)

\* the stored associations whose valid lifetime has run out when the clock
\* reads now
ExpiredAt(now) ==
    {identityAssociations[h] : h \in {x \in DOMAIN identityAssociations :
        ~(now < identityAssociations[x].CreatedAt + ValidLifetime)}}

\* the whole of ReserveAddresses under the lock: the sweep, then the loop
ReserveResult(clientID, interfaceIDs, picks, now) ==
    LET swept == expireIdentityAssociations(
                    [ias |-> identityAssociations, used |-> usedIps,
                     q |-> identityAssociationExpirations], now)
    IN  ReserveLoop([ias |-> swept.ias, used |-> swept.used, q |-> swept.q,
                     ret |-> <<>>, err |-> FALSE, stuck |-> FALSE],
                    clientID, interfaceIDs, picks, 1, now, poolSize)

\* ReserveAddresses(clientID, interfaceIDs) while the clock reads now
ReserveAddresses(clientID, interfaceIDs, picks, now) ==
    LET r == ReserveResult(clientID, interfaceIDs, picks, now)
    IN  /\ ~r.stuck
        /\ Len(r.q) <= MaxQueue
        /\ timeNow' = now
        /\ identityAssociations' = r.ias
        /\ usedIps' = r.used
        /\ identityAssociationExpirations' = r.q
        /\ lastCall' = [op |-> "reserve", clientID |-> clientID,
                        interfaceIDs |-> interfaceIDs, ret |-> r.ret, err |-> r.err,
                        expired |-> ExpiredAt(now)]
        /\ UNCHANGED poolSize
        /\ UNCHANGED serverVars

(***************************************************************************)
(* ReleaseAddresses: for each interface with a stored association, delete  *)
(* its address from usedIps and its key from identityAssociations.  The    *)
(* expiration queue is not touched.                                        *)
(***************************************************************************)
RECURSIVE ReleaseLoop(_, _, _, _)
ReleaseLoop(st, clientID, interfaceIDs, k) ==
    IF k > Len(interfaceIDs) THEN st
    ELSE LET h == calculateIAIDHash(clientID, interfaceIDs[k])
         IN  IF h \notin DOMAIN st.ias
             THEN ReleaseLoop(st, clientID, interfaceIDs, k + 1)
             ELSE ReleaseLoop([ias |-> MapDelete(st.ias, h),
                               used |-> st.used \ {st.ias[h].IPAddress}],
                              clientID, interfaceIDs, k + 1)

ReleaseAddresses(clientID, interfaceIDs) ==
    LET r == ReleaseLoop([ias |-> identityAssociations, used |-> usedIps],
                         clientID, interfaceIDs, 1)
    IN  /\ identityAssociations' = r.ias
        /\ usedIps' = r.used
        /\ lastCall' = [op |-> "release", clientID |-> clientID,
                        interfaceIDs |-> interfaceIDs, ret |-> <<>>, err |-> FALSE,
                        expired |-> {}]
        /\ UNCHANGED <<poolSize, timeNow, identityAssociationExpirations>>
        /\ UNCHANGED serverVars


(***************************************************************************)
(* Server.Serve and Server.Shutdown.                                       *)
(***************************************************************************)
\* capacity of s.errs: make(chan error, 6)
ErrsCap == 6

\* the listeners in the order Serve() binds and closes them
Listeners == <<"dhcp", "tftp", "pxe", "http">>
\* the goroutines in the order Serve() starts them; each serves the
\* listener of its name
Goroutines == <<"dhcp", "pxe", "tftp", "http">>
Workers == {"dhcp", "tftp", "pxe", "http"}

Nil == "nil"
BindError == "binderr"

\* the statements that bind listener number i, and start goroutine number i
BindPc == <<"L221", "L225", "L230", "L236">>
GoPc == <<"L254", "L255", "L256", "L257">>
ClosePc == <<"L261", "L262", "L263", "L264">>

\* a call of Serve() is in progress
Serving == spc \notin {"idle", "returned"}

ServerInit ==
    /\ spc = "idle"
    /\ errs = "nil"
    /\ sink = <<>>
    /\ socket = [l \in Workers |-> "unbound"]
    /\ wpc = [w \in Workers |-> "unstarted"]
    /\ retval = "none"
    /\ returns = 0
    /\ first = "none"
    /\ shutdownEarly = FALSE
    /\ shutdownDuring = FALSE

\* the caller enters Serve(); the port defaults are filled in
ServeCall ==
    /\ spc = "idle"
    /\ spc' = BindPc[1]
    /\ UNCHANGED <<errs, sink, socket, wpc, retval, returns, first,
                   shutdownEarly, shutdownDuring>>

ServeBindLeaking(i) ==
    /\ spc = BindPc[i]
    /\ \/ /\ socket' = [socket EXCEPT ![Listeners[i]] = "open"]
          /\ spc' = IF i < Len(BindPc) THEN BindPc[i + 1] ELSE "L250"
          /\ UNCHANGED <<retval, returns>>
       \/ /\ socket' = [l \in Workers |->
                          IF \E j \in 2..(i - 1) : Listeners[j] = l
                          THEN "closed" ELSE socket[l]]
          /\ spc' = "returned"
          /\ retval' = BindError
          /\ returns' = returns + 1
    /\ UNCHANGED <<errs, sink, wpc, first, shutdownEarly, shutdownDuring>>

\* lines 221-242: listener number i is bound, or the bind fails and Serve()
\* closes the listeners bound before it and returns the error
ServeBind(i) ==
    /\ spc = BindPc[i]
    /\ \/ /\ socket' = [socket EXCEPT ![Listeners[i]] = "open"]
          /\ spc' = IF i < Len(BindPc) THEN BindPc[i + 1] ELSE "L250"
          /\ UNCHANGED <<retval, returns>>
       \/ /\ socket' = [l \in Workers |->
                          IF \E j \in 1..(i - 1) : Listeners[j] = l
                          THEN "closed" ELSE socket[l]]
          /\ spc' = "returned"
          /\ retval' = BindError
          /\ returns' = returns + 1
    /\ UNCHANGED <<errs, sink, wpc, first, shutdownEarly, shutdownDuring>>

\* lines 244-250: s.errs = make(chan error, 6)
ServeMake ==
    /\ spc = "L250"
    /\ errs' = "chan"
    /\ sink' = <<>>
    /\ spc' = GoPc[1]
    /\ UNCHANGED <<socket, wpc, retval, returns, first, shutdownEarly, shutdownDuring>>

\* lines 254-257: go func() { s.errs <- serve...(listener) }()
ServeGo(i) ==
    /\ spc = GoPc[i]
    /\ wpc' = [wpc EXCEPT ![Goroutines[i]] = "running"]
    /\ spc' = IF i < Len(GoPc) THEN GoPc[i + 1] ELSE "L260"
    /\ UNCHANGED <<errs, sink, socket, retval, returns, first,
                   shutdownEarly, shutdownDuring>>

\* the value a receive takes from the channel: the oldest one
RecvNewest(q) == q[Len(q)]
Recv(q) == Head(q)

\* line 260: err = <-s.errs
ServeRecv ==
    /\ spc = "L260"
    /\ sink # <<>>
    /\ retval' = Recv(sink)
    /\ sink' = Tail(sink)
    /\ spc' = ClosePc[1]
    /\ UNCHANGED <<errs, socket, wpc, returns, first, shutdownEarly, shutdownDuring>>

\* lines 261-265: the listeners are closed one by one, then Serve() returns
ServeClose(i) ==
    /\ spc = ClosePc[i]
    /\ socket' = [socket EXCEPT ![Listeners[i]] = "closed"]
    /\ IF i < Len(ClosePc)
       THEN spc' = ClosePc[i + 1] /\ UNCHANGED returns
       ELSE spc' = "returned" /\ returns' = returns + 1
    /\ UNCHANGED <<errs, sink, wpc, retval, first, shutdownEarly, shutdownDuring>>

\* a send on the channel completes: the value is buffered
Deliver(v) ==
    /\ Len(sink) < ErrsCap
    /\ sink' = Append(sink, v)
    /\ first' = IF first = "none" THEN v ELSE first

(***************************************************************************)
(* Shutdown(): select { case s.errs <- nil: default: }.  A send on the nil *)
(* channel is never ready, nor is one on a full channel, so the default    *)
(* branch runs.  The read of s.errs is not synchronised with the write in  *)
(* Serve(), so the caller may still see the nil channel after line 250.    *)
(***************************************************************************)
Shutdown ==
    /\ \E seen \in {errs, "nil"} :
          IF seen = "chan" /\ Len(sink) < ErrsCap
          THEN Deliver(Nil)
          ELSE UNCHANGED <<sink, first>>
    /\ shutdownEarly' = (shutdownEarly \/ spc = "idle")
    /\ shutdownDuring' = (shutdownDuring \/ Serving)
    /\ UNCHANGED <<spc, errs, socket, wpc, retval, returns>>

\* a worker's serve function returns with a fatal error of its own
WorkerFail(w) ==
    /\ wpc[w] = "running"
    /\ socket[w] = "open"
    /\ wpc' = [wpc EXCEPT ![w] = "sending"]
    /\ UNCHANGED <<spc, errs, sink, socket, retval, returns, first,
                   shutdownEarly, shutdownDuring>>

\* a worker's serve function returns because its listener was closed
WorkerClosed(w) ==
    /\ wpc[w] = "running"
    /\ socket[w] = "closed"
    /\ wpc' = [wpc EXCEPT ![w] = "sending"]
    /\ UNCHANGED <<spc, errs, sink, socket, retval, returns, first,
                   shutdownEarly, shutdownDuring>>

\* the goroutine's send s.errs <- result completes
WorkerSend(w) ==
    /\ wpc[w] = "sending"
    /\ Deliver(w)
    /\ wpc' = [wpc EXCEPT ![w] = "done"]
    /\ UNCHANGED <<spc, errs, socket, retval, returns, shutdownEarly, shutdownDuring>>

ServeStep ==
    \/ \E i \in 1..Len(BindPc) : ServeBind(i)
    \/ ServeMake
    \/ \E i \in 1..Len(GoPc) : ServeGo(i)
    \/ ServeRecv
    \/ \E i \in 1..Len(ClosePc) : ServeClose(i)

ServerNext ==
    \/ (ServeCall /\ UNCHANGED <<poolVars, dhcpVars, concVars, signVars, httpVars, builderVars, leaseVars, staticVars, codecVars>>)
    \/ (ServeStep /\ UNCHANGED <<poolVars, dhcpVars, concVars, signVars, httpVars, builderVars, leaseVars, staticVars, codecVars>>)
    \/ (Shutdown /\ UNCHANGED <<poolVars, dhcpVars, concVars, signVars, httpVars, builderVars, leaseVars, staticVars, codecVars>>)
    \/ \E w \in Workers : (WorkerFail(w) /\ UNCHANGED <<poolVars, dhcpVars, concVars, signVars, httpVars, builderVars, leaseVars, staticVars, codecVars>>)
    \/ \E w \in Workers : (WorkerClosed(w) /\ UNCHANGED <<poolVars, dhcpVars, concVars, signVars, httpVars, builderVars, leaseVars, staticVars, codecVars>>)
    \/ \E w \in Workers : (WorkerSend(w) /\ UNCHANGED <<poolVars, dhcpVars, concVars, signVars, httpVars, builderVars, leaseVars, staticVars, codecVars>>)

(***************************************************************************)
(* DHCPv6: the packets, the option accessors and the discard filter.       *)
(***************************************************************************)
\* datagrams one serveDHCP goroutine reads before the model stops it
MaxPackets == 2
MaxSuffix == 2
MaxInitrd == 2

\* dhcp6.MessageType
MsgSolicit == 1
MsgAdvertise == 2
MsgRequest == 3
MsgConfirm == 4
MsgReply == 7
MsgRelease == 8
MsgInformationRequest == 11

\* option identifiers
OptClientID == 1
OptServerID == 2
OptIaNa == 3
OptIaAddr == 5
OptStatusCode == 13
OptVendorClass == 16
OptBootfileURL == 59

\* ClientArchType of an HTTP-boot client
x86HTTPClient == 16

\* s.Duid, the server's own DUID, and the DUID of some other server
Duid == <<0, 1, 9>>
OtherDuid == <<0, 1, 8>>

\* Client-ID values: a DUID-LL (type 3) with a one-byte link-layer address,
\* and a DUID-LLT (type 1) cut short to three bytes
CidA == <<0, 3, 0, 1, 7>>
CidShort == <<0, 1, 5>>

\* IA_NA option values: IAID, T1 and T2 of four bytes each
IaNaA == <<0, 0, 0, 1, 0, 0, 0, 0, 0, 0, 0, 0>>
IaNaB == <<0, 0, 0, 2, 0, 0, 0, 0, 0, 0, 0, 0>>

\* Option Request values: the pairs request option 59, option 23, and a
\* value of odd length
OroBoot == <<0, 59>>
OroDNS == <<0, 23>>
OroOdd == <<0, 59, 0>>

\* A packet is [Type, TransactionID, Options]; Options maps each option of
\* interest to the list of the values the packet carries for it, in order.
MakePacket(type, xid, cid, sid, oro, iana, iata, arch) ==
    [Type |-> type, TransactionID |-> xid,
     Options |-> [ClientID |-> cid, ServerID |-> sid, Oro |-> oro,
                  IaNa |-> iana, IaTa |-> iata, ClientArchType |-> arch]]

\* UnmarshalOption rejects an Option Request option of odd length
UnmarshalOption(id, value) ==
    IF id = "Oro" /\ Len(value) % 2 # 0 THEN "error" ELSE "ok"

\* UnmarshalOptions fails as soon as one option does
UnmarshalOptions(o) ==
    IF \E id \in DOMAIN o : \E i \in 1..Len(o[id]) :
            UnmarshalOption(id, o[id][i]) = "error"
    THEN "error" ELSE "ok"

\* Unmarshal: the packet, or an error for a malformed options section
Unmarshal(d) == UnmarshalOptions(d.Options)

\* UnmarshalOptionRequestOption: the option codes of an ORO value
UnmarshalOptionRequestOption(value) ==
    {value[2 * i - 1] * 256 + value[2 * i] : i \in 1..(Len(value) \div 2)}

\* only the first Option Request option is looked at
HasBootFileURLOption(o) ==
    /\ Len(o.Oro) > 0
    /\ OptBootfileURL \in UnmarshalOptionRequestOption(o.Oro[1])

HasClientID(o) == Len(o.ClientID) > 0
HasServerID(o) == Len(o.ServerID) > 0
HasIaNa(o) == Len(o.IaNa) > 0
HasIaTa(o) == Len(o.IaTa) > 0

\* nil when the option is absent, modelled as the empty byte string
ClientID(o) == IF Len(o.ClientID) = 0 THEN <<>> ELSE o.ClientID[1]
ServerID(o) == IF Len(o.ServerID) = 0 THEN <<>> ELSE o.ServerID[1]

\* 0 when the option is absent
ClientArchType(o) ==
    IF Len(o.ClientArchType) = 0 THEN 0
    ELSE o.ClientArchType[1][1] * 256 + o.ClientArchType[1][2]

\* the first four bytes of every IA_NA option
IaNaIDs(o) == [i \in 1..Len(o.IaNa) |-> SubSeq(o.IaNa[i], 1, 4)]

shouldDiscardSolicitAnyServer(p, serverDuid) ==
    \/ ~HasBootFileURLOption(p.Options)
    \/ ~HasClientID(p.Options)

shouldDiscardSolicit(p, serverDuid) ==
    \/ ~HasBootFileURLOption(p.Options)
    \/ ~HasClientID(p.Options)
    \/ HasServerID(p.Options)

shouldDiscardRequestAnyServer(p, serverDuid) ==
    \/ ~HasBootFileURLOption(p.Options)
    \/ ~HasClientID(p.Options)
    \/ ~HasServerID(p.Options)

shouldDiscardRequest(p, serverDuid) ==
    \/ ~HasBootFileURLOption(p.Options)
    \/ ~HasClientID(p.Options)
    \/ ~HasServerID(p.Options)
    \/ ServerID(p.Options) # serverDuid

shouldDiscardInformationRequestWithIa(p, serverDuid) ==
    \/ ~HasBootFileURLOption(p.Options)
    \/ (HasServerID(p.Options) /\ ServerID(p.Options) # serverDuid)

shouldDiscardInformationRequest(p, serverDuid) ==
    \/ ~HasBootFileURLOption(p.Options)
    \/ HasIaNa(p.Options) \/ HasIaTa(p.Options)
    \/ (HasServerID(p.Options) /\ ServerID(p.Options) # serverDuid)

\* TRUE when ShouldDiscard returns an error; a Release is never discarded
ShouldDiscard(p, serverDuid) ==
    CASE p.Type = MsgSolicit -> shouldDiscardSolicit(p, serverDuid)
      [] p.Type = MsgRequest -> shouldDiscardRequest(p, serverDuid)
      [] p.Type = MsgInformationRequest ->
            shouldDiscardInformationRequest(p, serverDuid)
      [] p.Type = MsgRelease -> FALSE
      [] OTHER -> TRUE

(***************************************************************************)
(* PacketBuilder: the response to a packet that passed the filter.  The    *)
(* options of a response are listed in the order they were added.          *)
(***************************************************************************)
\* PacketBuilder.PreferredLifetime (the builder's ValidLifetime is the pool's)
PreferredLifetime == 5

\* the boot file URLs of a StaticBootConfiguration
HTTPBootURL == "http-boot-url"
IPxeBootURL == "ipxe-boot-url"
\* configuration.GetPreference() and configuration.GetRecursiveDNS()
Preference == <<255>>
RecursiveDNS == <<>>

\* the error values of BuildResponse: none, the one GetBootURL returns when
\* the boot API cannot be asked, and the one ReserveAddresses returns
NoError == "nil"
BootAPIError == "boot API error"
NoMoreAddresses == "No more free ip addresses are currently available in the pool"

MakeOption(id, value) == [ID |-> id, Value |-> value]

MakeIaAddrOption(addr, preferredLifetime, validLifetime) ==
    [ID |-> OptIaAddr,
     Value |-> [addr |-> addr, preferred |-> preferredLifetime,
                valid |-> validLifetime]]

MakeStatusOption(statusCode, message) ==
    [ID |-> OptStatusCode, Value |-> [code |-> statusCode, message |-> message]]

MakeIaNaOption(iaid, t1, t2, iaOption) ==
    [ID |-> OptIaNa,
     Value |-> [iaid |-> SubSeq(iaid, 1, 4), t1 |-> t1, t2 |-> t2,
                option |-> iaOption]]

\* a uint32 as its two 16-bit halves, and the number it stands for
Uint32(n) == [hi |-> (n \div 65536) % 65536, lo |-> n % 65536]
Value(w) == w.hi * 65536 + w.lo

\* w * k and w / d in uint32, for small k and d: the product keeps its low
\* 32 bits
Mul32(w, k) ==
    [hi |-> (w.hi * k + (w.lo * k) \div 65536) % 65536, lo |-> (w.lo * k) % 65536]
Div32(w, d) ==
    [hi |-> w.hi \div d, lo |-> ((w.hi % d) * 65536 + w.lo) \div d]

\* b.calculateT1() and b.calculateT2() of a builder with b.PreferredLifetime
\* = preferredLifetime
calculateT1(preferredLifetime) == Div32(preferredLifetime, 2)
calculateT2(preferredLifetime) == Div32(Mul32(preferredLifetime, 4), 5)

\* the slice expressions of extractLLAddressOrID panic on a Client-ID that is
\* nil or shorter than the header its DUID type implies
extractLLAddressOrIDPanics(optClientID) ==
    \/ Len(optClientID) < 2
    \/ (optClientID[1] * 256 + optClientID[2] = 1 /\ Len(optClientID) < 8)
    \/ (optClientID[1] * 256 + optClientID[2] = 3 /\ Len(optClientID) < 4)

extractLLAddressOrID(optClientID) ==
    LET idType == optClientID[1] * 256 + optClientID[2]
        n == Len(optClientID)
    IN  CASE idType = 1 -> SubSeq(optClientID, 9, n)
          [] idType = 3 -> SubSeq(optClientID, 5, n)
          [] OTHER -> SubSeq(optClientID, 3, n)

\* StaticBootConfiguration.GetBootURL
GetBootURLForIPxe(id, clientArchType) == IPxeBootURL

GetBootURL(id, clientArchType) ==
    IF clientArchType = x86HTTPClient THEN HTTPBootURL ELSE IPxeBootURL

\* the builder's calculateIAIDHash(interfaceID): FNV-64a of the bytes
IAIDHash(interfaceID) == interfaceID

iasWithoutAddessesNone(availableAssociations, allIAs) == <<>>

iasWithoutAddesses(availableAssociations, allIAs) ==
    LET iasWithAddresses ==
            {IAIDHash(availableAssociations[i].InterfaceID) :
                i \in 1..Len(availableAssociations)}
    IN  SelectSeq(allIAs, LAMBDA ia : IAIDHash(ia) \notin iasWithAddresses)

\* the options every answer to a boot request ends with
BootOptions(serverDUID, clientArchType, bootFileURL, preference, dnsServers) ==
    <<MakeOption(OptServerID, serverDUID)>>
    \o (IF clientArchType = x86HTTPClient
        THEN <<MakeOption(OptVendorClass, "HTTPClient")>> ELSE <<>>)
    \o <<MakeOption(OptBootfileURL, bootFileURL)>>
    \o (IF preference # <<>> THEN <<MakeOption(7, preference)>> ELSE <<>>)
    \o (IF Len(dnsServers) > 0 THEN <<MakeOption(23, dnsServers)>> ELSE <<>>)

\* one IA_NA option with an IA Address per association
AddressOptions(associations) ==
    [i \in 1..Len(associations) |->
        MakeIaNaOption(associations[i].InterfaceID,
                       Value(calculateT1(Uint32(PreferredLifetime))),
                       Value(calculateT2(Uint32(PreferredLifetime))),
            MakeIaAddrOption(associations[i].IPAddress, PreferredLifetime,
                             ValidLifetime))]

makeMsgAdvertise(transactionID, serverDUID, clientID, clientArchType, associations, bootFileURL, preference, dnsServers) ==
    [Type |-> MsgAdvertise, TransactionID |-> transactionID,
     Options |-> <<MakeOption(OptClientID, clientID)>>
                 \o AddressOptions(associations)
                 \o BootOptions(serverDUID, clientArchType, bootFileURL,
                                preference, dnsServers)]

makeMsgReply(transactionID, serverDUID, clientID, clientArchType, associations, iasWithoutAddresses, bootFileURL, dnsServers, err) ==
    [Type |-> MsgReply, TransactionID |-> transactionID,
     Options |-> <<MakeOption(OptClientID, clientID)>>
                 \o AddressOptions(associations)
                 \o [i \in 1..Len(iasWithoutAddresses) |->
                        MakeIaNaOption(iasWithoutAddresses[i],
                                       Value(calculateT1(Uint32(PreferredLifetime))),
                                       Value(calculateT2(Uint32(PreferredLifetime))),
                                       MakeStatusOption(2, err))]
                 \o BootOptions(serverDUID, clientArchType, bootFileURL,
                                <<>>, dnsServers)]

makeMsgInformationRequestReply(transactionID, serverDUID, clientID, clientArchType, bootFileURL, dnsServers) ==
    [Type |-> MsgReply, TransactionID |-> transactionID,
     Options |-> <<MakeOption(OptClientID, clientID)>>
                 \o BootOptions(serverDUID, clientArchType, bootFileURL,
                                <<>>, dnsServers)]

makeMsgReleaseReplyNoID(transactionID, serverDUID, clientID) ==
    [Type |-> MsgReply, TransactionID |-> <<0, 0, 0>>,
     Options |-> <<MakeOption(OptClientID, clientID),
                   MakeOption(OptServerID, serverDUID),
                   MakeStatusOption(0, "Release received.")>>]

makeMsgReleaseReply(transactionID, serverDUID, clientID) ==
    [Type |-> MsgReply, TransactionID |-> transactionID,
     Options |-> <<MakeOption(OptClientID, clientID),
                   MakeOption(OptServerID, serverDUID),
                   MakeStatusOption(0, "Release received.")>>]

makeMsgAdvertiseWithNoAddrsAvailableUnspec(transactionID, serverDUID, clientID, err) ==
    [Type |-> MsgAdvertise, TransactionID |-> transactionID,
     Options |-> <<MakeOption(OptClientID, clientID),
                   MakeOption(OptServerID, serverDUID),
                   MakeStatusOption(1, err)>>]

makeMsgAdvertiseWithNoAddrsAvailable(transactionID, serverDUID, clientID, err) ==
    [Type |-> MsgAdvertise, TransactionID |-> transactionID,
     Options |-> <<MakeOption(OptClientID, clientID),
                   MakeOption(OptServerID, serverDUID),
                   MakeStatusOption(2, err)>>]

\* BuildResponse, given what the boot configuration and the pool answer:
\* bootFails when GetBootURL returns an error, associations and err the
\* results of the pool call.  response is <<>> for nil.
BuildResponse(in, serverDUID, bootFails, associations, err) ==
    LET o == in.Options
        url == GetBootURL(extractLLAddressOrID(ClientID(o)), ClientArchType(o))
    IN  CASE in.Type = MsgSolicit ->
                IF bootFails THEN [response |-> <<>>, err |-> BootAPIError]
                ELSE IF err # NoError
                THEN [response |-> <<makeMsgAdvertiseWithNoAddrsAvailable(
                                       in.TransactionID, serverDUID, ClientID(o),
                                       err)>>,
                      err |-> err]
                ELSE [response |-> <<makeMsgAdvertise(
                                       in.TransactionID, serverDUID, ClientID(o),
                                       ClientArchType(o), associations, url,
                                       Preference, RecursiveDNS)>>,
                      err |-> NoError]
          [] in.Type = MsgRequest ->
                IF bootFails THEN [response |-> <<>>, err |-> BootAPIError]
                ELSE [response |-> <<makeMsgReply(
                                       in.TransactionID, serverDUID, ClientID(o),
                                       ClientArchType(o), associations,
                                       iasWithoutAddesses(associations, IaNaIDs(o)),
                                       url, RecursiveDNS, err)>>,
                      err |-> err]
          [] in.Type = MsgInformationRequest ->
                IF bootFails THEN [response |-> <<>>, err |-> BootAPIError]
                ELSE [response |-> <<makeMsgInformationRequestReply(
                                       in.TransactionID, serverDUID, ClientID(o),
                                       ClientArchType(o), url, RecursiveDNS)>>,
                      err |-> NoError]
          [] in.Type = MsgRelease ->
                [response |-> <<makeMsgReleaseReply(
                                  in.TransactionID, serverDUID, ClientID(o))>>,
                 err |-> NoError]
          [] OTHER -> [response |-> <<>>, err |-> NoError]

\* what serveDHCP hands to SendDHCP for the result of BuildResponse: a nil
\* response is dropped, a response that comes with an error is still sent
Responses(built) == built.response

\* the goroutine after a packet was discarded: continue
AfterDiscardReturn == "exited"

AfterDiscard == "running"

(***************************************************************************)
(* ServerV6: one iteration of the serveDHCP loop for the datagram d.       *)
(***************************************************************************)
serveDHCPOnce(d) ==
    /\ v6pc = "running"
    /\ handled' = handled + 1
    /\ lastPkt' = <<d>>
    /\ UNCHANGED <<v6serve, serverVars>>
    /\ IF Unmarshal(d) = "error"
       THEN \* RecvDHCP returns the error and serveDHCP returns it
            /\ v6pc' = "exited"
            /\ lastReplies' = <<>>
            /\ lastErr' = "-"
            /\ UNCHANGED poolVars
       ELSE IF ShouldDiscard(d, Duid)
       THEN /\ v6pc' = AfterDiscard
            /\ lastReplies' = <<>>
            /\ lastErr' = "-"
            /\ UNCHANGED poolVars
       ELSE IF d.Type = MsgRelease
       THEN LET built == BuildResponse(d, Duid, FALSE, <<>>, NoError)
            IN  /\ ReleaseAddresses(ClientID(d.Options), IaNaIDs(d.Options))
                /\ lastReplies' = Responses(built)
                /\ lastErr' = built.err
                /\ v6pc' = "running"
       ELSE IF extractLLAddressOrIDPanics(ClientID(d.Options))
       THEN /\ v6pc' = "panicked"
            /\ lastReplies' = <<>>
            /\ lastErr' = "-"
            /\ UNCHANGED poolVars
       ELSE \E bootFails \in BOOLEAN :
            /\ v6pc' = "running"
            /\ IF bootFails \/ d.Type = MsgInformationRequest
               THEN LET built == BuildResponse(d, Duid, bootFails, <<>>, NoError)
                    IN  /\ lastReplies' = Responses(built)
                        /\ lastErr' = built.err
                        /\ UNCHANGED poolVars
               ELSE \E now \in timeNow..MaxTime :
                    \E picks \in [1..Len(d.Options.IaNa) -> 0..(poolSize - 1)] :
                       LET r == ReserveResult(ClientID(d.Options),
                                              IaNaIDs(d.Options), picks, now)
                           built == BuildResponse(d, Duid, FALSE, r.ret,
                                        IF r.err THEN NoMoreAddresses ELSE NoError)
                       IN  /\ ReserveAddresses(ClientID(d.Options),
                                               IaNaIDs(d.Options), picks, now)
                           /\ lastReplies' = Responses(built)
                           /\ lastErr' = built.err

\* the loop of serveDHCP, for as many datagrams as the model reads
serveDHCP(d) == handled < MaxPackets /\ serveDHCPOnce(d)

\* conn.ReadFrom fails: RecvDHCP and serveDHCP return the error
RecvDHCPError ==
    /\ v6pc = "running"
    /\ v6pc' = "exited"
    /\ lastPkt' = <<>>
    /\ lastReplies' = <<>>
    /\ lastErr' = "-"
    /\ UNCHANGED <<v6serve, handled, poolVars, serverVars>>

\* ServerV6.Serve: err = <-s.errs receives what serveDHCP returned; return err
ServeV6Return ==
    /\ v6pc = "exited"
    /\ v6serve = "waiting"
    /\ v6serve' = "returned"
    /\ UNCHANGED <<v6pc, handled, lastPkt, lastReplies, lastErr, poolVars,
                   serverVars>>

TransactionIDs == {<<0, 0, 1>>}

\* the datagrams the model feeds to the server
FilterDatagrams ==
    {MakePacket(t, x, cid, sid, oro, <<IaNaA>>, <<>>, <<>>) :
        t \in {MsgSolicit, MsgRequest, MsgConfirm, MsgRelease,
               MsgInformationRequest},
        x \in TransactionIDs,
        cid \in {<<>>, <<CidA>>},
        sid \in {<<>>, <<Duid>>, <<OtherDuid>>},
        oro \in {<<>>, <<OroBoot>>}}

InformationDatagrams ==
    {MakePacket(MsgInformationRequest, x, cid, sid, <<OroBoot>>, <<>>, iata, <<>>) :
        x \in TransactionIDs,
        cid \in {<<>>, <<CidA>>},
        sid \in {<<>>, <<Duid>>, <<OtherDuid>>},
        iata \in {<<>>, <<IaNaA>>}}

AddressDatagrams ==
    {MakePacket(ts[1], x, <<CidA>>, ts[2], <<OroBoot>>, iana, <<>>, <<>>) :
        ts \in {<<MsgSolicit, <<>>>>, <<MsgRequest, <<Duid>>>>,
                <<MsgRelease, <<Duid>>>>},
        x \in TransactionIDs,
        iana \in {<<>>, <<IaNaB>>, <<IaNaA, IaNaB>>, <<IaNaA, IaNaA>>}}

OddDatagrams ==
    {MakePacket(ts[1], x, cid, ts[2], oro, <<>>, <<>>, arch) :
        ts \in {<<MsgSolicit, <<>>>>, <<MsgRequest, <<Duid>>>>,
                <<MsgInformationRequest, <<>>>>},
        x \in TransactionIDs,
        cid \in {<<CidA>>, <<CidShort>>},
        oro \in {<<OroBoot>>, <<OroOdd>>, <<OroDNS, OroBoot>>},
        arch \in {<<>>, <<<<0, 16>>>>}}

\* clients of other architectures: EFI x86-64 (00 07), a code whose low byte
\* alone is that of the HTTP client (01 10), and a list of two codes
ArchDatagrams ==
    {MakePacket(ts[1], <<0, 0, 1>>, <<CidA>>, ts[2], <<OroBoot>>, <<>>, <<>>, <<arch>>) :
        ts \in {<<MsgSolicit, <<>>>>, <<MsgRequest, <<Duid>>>>,
                <<MsgInformationRequest, <<>>>>},
        arch \in {<<0, 7>>, <<1, 16>>, <<0, 7, 0, 16>>}}

Datagrams ==
    FilterDatagrams \cup InformationDatagrams \cup AddressDatagrams
        \cup OddDatagrams

DhcpInit ==
    /\ v6pc = "running"
    /\ v6serve = "waiting"
    /\ handled = 0
    /\ lastPkt = <<>>
    /\ lastReplies = <<>>
    /\ lastErr = "-"

DhcpNext ==
    \/ (\E d \in Datagrams : serveDHCP(d)) /\ UNCHANGED <<concVars, signVars, httpVars, builderVars, leaseVars, staticVars, codecVars>>
    \/ RecvDHCPError /\ UNCHANGED <<concVars, signVars, httpVars, builderVars, leaseVars, staticVars, codecVars>>
    \/ ServeV6Return /\ UNCHANGED <<concVars, signVars, httpVars, builderVars, leaseVars, staticVars, codecVars>>

\* the loop of serveDHCP fed by clients of every architecture
ArchNext ==
    /\ \E d \in OddDatagrams \cup ArchDatagrams : serveDHCP(d)
    /\ UNCHANGED <<concVars, signVars, httpVars, builderVars, leaseVars, staticVars, codecVars>>

(***************************************************************************)
(* Concurrent callers of the pool.  Each goroutine makes one call; a call  *)
(* takes p.lock, runs the sweep and then the loop one interface at a time, *)
(* and gives the lock back on return (defer p.lock.Unlock()).              *)
(***************************************************************************)
Callers == {1, 2}

NoCall == [pc |-> "idle", op |-> "-", clientID |-> <<>>, interfaceIDs |-> <<>>,
           picks |-> <<>>, now |-> 0, k |-> 0, ret |-> <<>>, err |-> FALSE,
           expect |-> <<>>]

\* what the body of a call makes of the pool when nothing else runs
Sequential(op, clientID, interfaceIDs, picks, now) ==
    IF op = "reserve"
    THEN LET r == ReserveResult(clientID, interfaceIDs, picks, now)
         IN  [ias |-> r.ias, used |-> r.used, q |-> r.q, ret |-> r.ret,
              err |-> r.err, stuck |-> r.stuck]
    ELSE LET r == ReleaseLoop([ias |-> identityAssociations, used |-> usedIps],
                              clientID, interfaceIDs, 1)
         IN  [ias |-> r.ias, used |-> r.used,
              q |-> identityAssociationExpirations, ret |-> <<>>,
              err |-> FALSE, stuck |-> FALSE]

\* goroutine g calls ReserveAddresses or ReleaseAddresses
CallPool(g, op, clientID, interfaceIDs, picks) ==
    /\ calls[g].pc = "idle"
    /\ calls' = [calls EXCEPT ![g] =
                    [NoCall EXCEPT !.pc = "Lock", !.op = op,
                                   !.clientID = clientID,
                                   !.interfaceIDs = interfaceIDs,
                                   !.picks = picks]]
    /\ UNCHANGED <<lock, poolVars>>

\* p.lock.Lock() returns; the clock reads now during the call
Lock(g, now) ==
    LET c == calls[g]
        seq == Sequential(c.op, c.clientID, c.interfaceIDs, c.picks, now)
    IN  /\ c.pc = "Lock"
        /\ lock = 0
        /\ ~seq.stuck
        /\ Len(seq.q) <= MaxQueue
        /\ lock' = g
        /\ calls' = [calls EXCEPT ![g].pc = IF c.op = "reserve" THEN "sweep"
                                                                ELSE "loop",
                                  ![g].now = now, ![g].k = 1,
                                  ![g].expect = <<seq>>]
        /\ timeNow' = IF c.op = "reserve" THEN now ELSE timeNow
        /\ UNCHANGED <<poolSize, identityAssociations, usedIps,
                       identityAssociationExpirations, lastCall>>

\* p.expireIdentityAssociations()
Sweep(g) ==
    LET swept == expireIdentityAssociations(
                    [ias |-> identityAssociations, used |-> usedIps,
                     q |-> identityAssociationExpirations], calls[g].now)
    IN  /\ calls[g].pc = "sweep"
        /\ identityAssociations' = swept.ias
        /\ usedIps' = swept.used
        /\ identityAssociationExpirations' = swept.q
        /\ calls' = [calls EXCEPT ![g].pc = "loop"]
        /\ UNCHANGED <<lock, poolSize, timeNow, lastCall>>

\* one iteration of the loop over interfaceIDs, or the return when the loop
\* is over: the deferred Unlock runs
Iterate(g) ==
    LET c == calls[g]
        one == <<c.interfaceIDs[c.k]>>
    IN  /\ c.pc = "loop"
        /\ IF c.k > Len(c.interfaceIDs) \/ c.err
           THEN /\ lock' = 0
                /\ calls' = [calls EXCEPT ![g].pc = "done"]
                /\ UNCHANGED poolVars
           ELSE IF c.op = "reserve"
           THEN LET r == ReserveLoop(
                            [ias |-> identityAssociations, used |-> usedIps,
                             q |-> identityAssociationExpirations,
                             ret |-> c.ret, err |-> FALSE, stuck |-> FALSE],
                            c.clientID, one, <<c.picks[c.k]>>, 1, c.now, poolSize)
                IN  /\ identityAssociations' = r.ias
                    /\ usedIps' = r.used
                    /\ identityAssociationExpirations' = r.q
                    /\ calls' = [calls EXCEPT ![g].ret = r.ret, ![g].err = r.err,
                                              ![g].k = c.k + 1]
                    /\ UNCHANGED <<lock, poolSize, timeNow, lastCall>>
           ELSE LET r == ReleaseLoop([ias |-> identityAssociations,
                                      used |-> usedIps], c.clientID, one, 1)
                IN  /\ identityAssociations' = r.ias
                    /\ usedIps' = r.used
                    /\ calls' = [calls EXCEPT ![g].k = c.k + 1]
                    /\ UNCHANGED <<lock, poolSize, timeNow, lastCall,
                                   identityAssociationExpirations>>

ConcInit ==
    /\ lock = 0
    /\ calls = [g \in Callers |-> NoCall]

ConcNext ==
    \/ /\ \E g \in Callers, op \in {"reserve", "release"}, c \in ClientIDs,
             ids \in IDLists :
             \E picks \in [1..Len(ids) -> 0..(poolSize - 1)] :
                /\ op = "release" => \A i \in 1..Len(ids) : picks[i] = 0
                /\ CallPool(g, op, c, ids, picks)
       /\ UNCHANGED <<serverVars, dhcpVars, signVars, httpVars, builderVars, leaseVars, staticVars, codecVars>>
    \/ /\ \E g \in Callers, now \in timeNow..MaxTime : Lock(g, now)
       /\ UNCHANGED <<serverVars, dhcpVars, signVars, httpVars, builderVars, leaseVars, staticVars, codecVars>>
    \/ /\ \E g \in Callers : Sweep(g)
       /\ UNCHANGED <<serverVars, dhcpVars, signVars, httpVars, builderVars, leaseVars, staticVars, codecVars>>
    \/ /\ \E g \in Callers : Iterate(g)
       /\ UNCHANGED <<serverVars, dhcpVars, signVars, httpVars, builderVars, leaseVars, staticVars, codecVars>>

(***************************************************************************)
(* Signed file ids of the API booter.  An ID is a string, kept here as the *)
(* sequence of its bytes.  secretbox is kept as what it is to its caller:  *)
(* an authenticated cipher whose box is a 16-byte tag followed by the      *)
(* ciphertext, and which opens a box only under the nonce and key that     *)
(* sealed it.                                                              *)
(***************************************************************************)
NonceLen == 24
Overhead == 16

RECURSIVE Sum(_)
Sum(s) ==
    IF s = <<>> THEN 0
    ELSE IF Len(s) = 1 THEN s[1] % 256
    ELSE (Sum(SubSeq(s, 1, Len(s) \div 2))
          + Sum(SubSeq(s, Len(s) \div 2 + 1, Len(s)))) % 256

\* the byte the cipher adds to position i of the message
KeyStream(nonce, key, i) ==
    (7 * key[((i - 1) % Len(key)) + 1] + nonce[((i - 1) % NonceLen) + 1] + i) % 256

\* the authenticator of a ciphertext under a nonce and a key
Authenticator(c, nonce, key) ==
    LET x == nonce \o c
        t1 == Sum(x)
        t2 == Sum([i \in 1..Len(x) |-> (i * x[i]) % 256])
        t3 == Len(c) % 256
        t4 == Sum(key)
    IN  <<t1, t2, t3, t4>> \o [j \in 1..(Overhead - 4) |-> (j * t4) % 256]

\* secretbox.Seal(out, message, &nonce, key)
Seal(out, message, nonce, key) ==
    LET c == [i \in 1..Len(message) |->
                 (message[i] + KeyStream(nonce, key, i)) % 256]
    IN  out \o Authenticator(c, nonce, key) \o c

\* secretbox.Open(nil, box, &nonce, key)
Open(box, nonce, key) ==
    IF Len(box) < Overhead THEN [ok |-> FALSE, out |-> <<>>]
    ELSE LET tag == SubSeq(box, 1, Overhead)
             c == SubSeq(box, Overhead + 1, Len(box))
         IN  IF tag # Authenticator(c, nonce, key)
             THEN [ok |-> FALSE, out |-> <<>>]
             ELSE [ok |-> TRUE,
                   out |-> [i \in 1..Len(c) |->
                               (c[i] + 256 - KeyStream(nonce, key, i)) % 256]]

\* the alphabet of base64.URLEncoding: A-Z a-z 0-9 - _
EncodeChar(v) ==
    IF v < 26 THEN 65 + v
    ELSE IF v < 52 THEN 97 + (v - 26)
    ELSE IF v < 62 THEN 48 + (v - 52)
    ELSE IF v = 62 THEN 45 ELSE 95

\* the decode map of the encoding: 255 for a byte outside the alphabet
DecodeChar(c) ==
    IF c \in 65..90 THEN c - 65
    ELSE IF c \in 97..122 THEN c - 97 + 26
    ELSE IF c \in 48..57 THEN c - 48 + 52
    ELSE IF c = 45 THEN 62
    ELSE IF c = 95 THEN 63 ELSE 255

\* base64.URLEncoding.EncodeToString: 3 bytes make 4 characters, the last
\* group is padded with '='
RECURSIVE EncodeToString(_)
EncodeToString(b) ==
    IF Len(b) > 6
    THEN EncodeToString(SubSeq(b, 1, 3 * (Len(b) \div 6)))
         \o EncodeToString(SubSeq(b, 3 * (Len(b) \div 6) + 1, Len(b)))
    ELSE IF Len(b) = 0 THEN <<>>
    ELSE IF Len(b) = 1
    THEN <<EncodeChar(b[1] \div 4), EncodeChar((b[1] % 4) * 16), 61, 61>>
    ELSE IF Len(b) = 2
    THEN <<EncodeChar(b[1] \div 4),
           EncodeChar((b[1] % 4) * 16 + b[2] \div 16),
           EncodeChar((b[2] % 16) * 4), 61>>
    ELSE <<EncodeChar(b[1] \div 4),
           EncodeChar((b[1] % 4) * 16 + b[2] \div 16),
           EncodeChar((b[2] % 16) * 4 + b[3] \div 64),
           EncodeChar(b[3] % 64)>> \o EncodeToString(SubSeq(b, 4, Len(b)))

\* the decoder steps over '\r' and '\n' wherever they stand
IsNewline(c) == c \in {10, 13}
SkipNewlines(s) == SelectSeq(s, LAMBDA c : ~IsNewline(c))

CorruptInput == [ok |-> FALSE, out |-> <<>>]

\* the quanta of the decoder, on input without line breaks: four characters
\* make three bytes; padding is accepted in the last quantum only and the
\* bits of its last character that belong to no byte are not looked at
RECURSIVE DecodeQuanta(_)
DecodeQuanta(s) ==
    IF Len(s) = 0 THEN [ok |-> TRUE, out |-> <<>>]
    ELSE IF Len(s) < 4 THEN CorruptInput
    ELSE LET d1 == DecodeChar(s[1])
             d2 == DecodeChar(s[2])
             d3 == DecodeChar(s[3])
             d4 == DecodeChar(s[4])
         IN  IF d1 = 255 \/ d2 = 255 THEN CorruptInput
             ELSE IF s[3] = 61
             THEN IF s[4] = 61 /\ Len(s) = 4
                  THEN [ok |-> TRUE, out |-> <<d1 * 4 + d2 \div 16>>]
                  ELSE CorruptInput
             ELSE IF d3 = 255 THEN CorruptInput
             ELSE IF s[4] = 61
             THEN IF Len(s) = 4
                  THEN [ok |-> TRUE,
                        out |-> <<d1 * 4 + d2 \div 16,
                                  (d2 % 16) * 16 + d3 \div 4>>]
                  ELSE CorruptInput
             ELSE IF d4 = 255 THEN CorruptInput
             ELSE LET rest == DecodeQuanta(SubSeq(s, 5, Len(s)))
                  IN  IF ~rest.ok THEN CorruptInput
                      ELSE [ok |-> TRUE,
                            out |-> <<d1 * 4 + d2 \div 16,
                                      (d2 % 16) * 16 + d3 \div 4,
                                      (d3 % 4) * 64 + d4>> \o rest.out]

\* base64.URLEncoding.DecodeString
DecodeString(s) == DecodeQuanta(SkipNewlines(s))

\* signURL(u, key) when the random source gives nonce
signURL(u, key, nonce) == EncodeToString(Seal(nonce, u, nonce, key))

\* getURL(id, key)
getURLNonceInBox(id, key) ==
    LET blob == DecodeString(id)
    IN  IF ~blob.ok THEN [err |-> TRUE, url |-> <<>>]
        ELSE IF Len(blob.out) < NonceLen THEN [err |-> TRUE, url |-> <<>>]
        ELSE LET nonce == SubSeq(blob.out, 1, NonceLen)
                 opened == Open(SubSeq(blob.out, NonceLen, Len(blob.out)),
                                nonce, key)
             IN  IF ~opened.ok THEN [err |-> TRUE, url |-> <<>>]
                 ELSE [err |-> FALSE, url |-> opened.out]

getURL(id, key) ==
    LET blob == DecodeString(id)
    IN  IF ~blob.ok THEN [err |-> TRUE, url |-> <<>>]
        ELSE IF Len(blob.out) < NonceLen THEN [err |-> TRUE, url |-> <<>>]
        ELSE LET nonce == SubSeq(blob.out, 1, NonceLen)
                 opened == Open(SubSeq(blob.out, NonceLen + 1, Len(blob.out)),
                                nonce, key)
             IN  IF ~opened.ok THEN [err |-> TRUE, url |-> <<>>]
                 ELSE [err |-> FALSE, url |-> opened.out]

\* the keys: the one of this process and a foreign one
ProcessKey == [i \in 1..32 |-> 1]
ForeignKey == [i \in 1..32 |-> 2]
Keys == {ProcessKey, ForeignKey}

\* what the random source may give for a nonce
Nonces == {[i \in 1..NonceLen |-> i], [i \in 1..NonceLen |-> 255 - i]}

\* "file:/a", "http://a", "http://ab", a string with a control character
\* in it, and the empty string
URLs ==
    {<<102, 105, 108, 101, 58, 47, 97>>,
     <<104, 116, 116, 112, 58, 47, 47, 97>>,
     <<104, 116, 116, 112, 58, 47, 47, 97, 98>>,
     <<104, 127>>,
     <<>>}

\* url.Parse refuses a string that holds an ASCII control character
ParseFails(u) == \E i \in 1..Len(u) : u[i] < 32 \/ u[i] = 127

\* u.Scheme: what stands before the first ':'
RECURSIVE Scheme(_)
Scheme(u) ==
    IF u = <<>> \/ ~(\E i \in 1..Len(u) : u[i] = 58) THEN <<>>
    ELSE IF u[1] = 58 THEN <<>>
    ELSE <<u[1]>> \o Scheme(Tail(u))

FileScheme == <<102, 105, 108, 101>>

NoID == <<>>
NotSigned == [u |-> <<>>, key |-> <<>>, id |-> NoID]
NoRequest == [kind |-> "none", url |-> <<>>]

\* BootSpec signs a URL the boot API named: the id goes out to the machine
SignURL(u, key, nonce) ==
    /\ signed = NotSigned
    /\ signed' = [u |-> u, key |-> key, id |-> signURL(u, key, nonce)]
    /\ UNCHANGED <<presented, got, followed>>

\* apibooter.ReadBootFile(id); fetched tells whether the open or the GET
\* of the URL went well
ReadBootFile(id, fetched) ==
    /\ signed # NotSigned
    /\ presented = NoID
    /\ \E r \in {getURL(id, ProcessKey)} :
        /\ presented' = id
        /\ IF r.err
           THEN /\ got' = [err |-> TRUE, url |-> <<>>]
                /\ followed' = NoRequest
           ELSE IF ParseFails(r.url)
           THEN /\ got' = [err |-> TRUE, url |-> r.url]
                /\ followed' = NoRequest
           ELSE /\ got' = [err |-> ~fetched, url |-> r.url]
                /\ followed' = [kind |-> IF Scheme(r.url) = FileScheme
                                         THEN "open" ELSE "get",
                                url |-> r.url]
        /\ UNCHANGED signed

\* v with bit k of its six bits turned over
FlipBit(v, k) == IF (v \div (2 ^ k)) % 2 = 1 THEN v - 2 ^ k ELSE v + 2 ^ k

\* the bytes a corrupted id may hold in place of its byte c: the characters
\* one bit away from it, 'A', '=', the line breaks and the blank
AlterBytes(c) ==
    ((IF DecodeChar(c) = 255 THEN {}
      ELSE {EncodeChar(FlipBit(DecodeChar(c), k)) : k \in 0..5})
     \cup {65, 61, 10, 13, 32}) \ {c}

\* id with its p-th byte replaced by c
Altered(id, p, c) == [id EXCEPT ![p] = c]

\* what may be appended to an id
SuffixBytes == {10, 61, 100}
Suffixes == UNION {[1..n -> SuffixBytes] : n \in 1..MaxSuffix}

SignInit ==
    /\ signed = NotSigned
    /\ presented = NoID
    /\ got = [err |-> FALSE, url |-> <<>>]
    /\ followed = NoRequest

SignNext ==
    \/ /\ \E u \in URLs, k \in Keys, n \in Nonces : SignURL(u, k, n)
       /\ UNCHANGED <<poolVars, serverVars, dhcpVars, concVars, httpVars, builderVars, leaseVars, staticVars, codecVars>>
    \/ /\ presented = NoID
       /\ \E fetched \in BOOLEAN :
             \/ ReadBootFile(signed.id, fetched)
             \/ \E p \in 1..Len(signed.id) :
                   \E c \in AlterBytes(signed.id[p]) :
                      ReadBootFile(Altered(signed.id, p, c), fetched)
             \/ \E s \in Suffixes : ReadBootFile(signed.id \o s, fetched)
       /\ UNCHANGED <<poolVars, serverVars, dhcpVars, concVars, httpVars, builderVars, leaseVars, staticVars, codecVars>>

(***************************************************************************)
(* The HTTP side of the boot server: /_/ipxe and /_/file.  Strings that    *)
(* are parsed, escaped or formatted are kept as the sequences of their     *)
(* bytes; the fixed error texts of the handlers are kept as they are.      *)
(***************************************************************************)
\* the fixed texts of the code, as bytes
\* "string"
TypeString == <<115, 116, 114, 105, 110, 103>>
\* "int"
TypeInt == <<105, 110, 116>>
\* ", "
CommaBlank == <<44, 32>>
\* "%!(EXTRA "
ExtraOpen == <<37, 33, 40, 69, 88, 84, 82, 65, 32>>
\* "%!(NOVERB)"
NoVerb == <<37, 33, 40, 78, 79, 86, 69, 82, 66, 41>>
\* "%!"
BadVerbOpen == <<37, 33>>
\* "(MISSING)"
Missing == <<40, 77, 73, 83, 83, 73, 78, 71, 41>>
\* "http://%s/_/file?name=%s"
FileURLFormat == <<104, 116, 116, 112, 58, 47, 47, 37, 115, 47, 95, 47, 102, 105, 108, 101, 63, 110, 97, 109, 101, 61, 37, 115>>
\* "{{ ID %q }}"
CallIDFormat == <<123, 123, 32, 73, 68, 32, 37, 113, 32, 125, 125>>
\* "ID "
CallID == <<73, 68, 32>>
\* "URL "
CallURL == <<85, 82, 76, 32>>
\* "initrd --name initrd%d %s\n"
InitrdLineFormat == <<105, 110, 105, 116, 114, 100, 32, 45, 45, 110, 97, 109, 101, 32, 105, 110, 105, 116, 114, 100, 37, 100, 32, 37, 115, 10>>
\* "initrd"
KindInitrd == <<105, 110, 105, 116, 114, 100>>
\* "initrd=initrd%d "
InitrdWordFormat == <<105, 110, 105, 116, 114, 100, 61, 105, 110, 105, 116, 114, 100, 37, 100, 32>>
\* "http://%s/_/file?name=%%s&type=%%s&mac=%%s"
URLTemplateFormat == <<104, 116, 116, 112, 58, 47, 47, 37, 115, 47, 95, 47, 102, 105, 108, 101, 63, 110, 97, 109, 101, 61, 37, 37, 115, 38, 116, 121, 112, 101, 61, 37, 37, 115, 38, 109, 97, 99, 61, 37, 37, 115>>
\* "kernel"
KindKernel == <<107, 101, 114, 110, 101, 108>>
\* "http://"
SchemeHTTP == <<104, 116, 116, 112, 58, 47, 47>>
\* "https://"
SchemeHTTPS == <<104, 116, 116, 112, 115, 58, 47, 47>>
\* "#!ipxe\n"
Shebang == <<35, 33, 105, 112, 120, 101, 10>>
\* "kernel --name kernel %s\n"
KernelLineFormat == <<107, 101, 114, 110, 101, 108, 32, 45, 45, 110, 97, 109, 101, 32, 107, 101, 114, 110, 101, 108, 32, 37, 115, 10>>
\* "imgfetch --name ready http://%s/_/booting?mac=%s ||\n"
ImgfetchLineFormat == <<105, 109, 103, 102, 101, 116, 99, 104, 32, 45, 45, 110, 97, 109, 101, 32, 114, 101, 97, 100, 121, 32, 104, 116, 116, 112, 58, 47, 47, 37, 115, 47, 95, 47, 98, 111, 111, 116, 105, 110, 103, 63, 109, 97, 99, 61, 37, 115, 32, 124, 124, 10>>
\* "imgfree ready ||\n"
ImgfreeLine == <<105, 109, 103, 102, 114, 101, 101, 32, 114, 101, 97, 100, 121, 32, 124, 124, 10>>
\* "boot kernel "
BootKernel == <<98, 111, 111, 116, 32, 107, 101, 114, 110, 101, 108, 32>>
\* "%s=%q"
StringWordFormat == <<37, 115, 61, 37, 113>>
\* "%s={{ URL %q }}"
URLWordFormat == <<37, 115, 61, 123, 123, 32, 85, 82, 76, 32, 37, 113, 32, 125, 125>>
\* "%s/boot/%s"
BootURLFormat == <<37, 115, 47, 98, 111, 111, 116, 47, 37, 115>>

\* Architecture
ArchIA32 == 0
ArchX64 == 1

IsDigit(c) == c \in 48..57
IsHex(c) == c \in 48..57 \/ c \in 97..102 \/ c \in 65..70
HexValue(c) == IF c \in 48..57 THEN c - 48 ELSE IF c \in 97..102 THEN c - 87 ELSE c - 55

\* strconv.Atoi on a short string: an optional sign, then digits only
RECURSIVE DigitsValue(_, _)
DigitsValue(s, acc) ==
    IF s = <<>> THEN acc ELSE DigitsValue(Tail(s), acc * 10 + (s[1] - 48))

Atoi(s) ==
    LET digits == IF s # <<>> /\ s[1] \in {43, 45} THEN Tail(s) ELSE s
    IN  IF digits = <<>> \/ \E i \in 1..Len(digits) : ~IsDigit(digits[i])
        THEN [err |-> TRUE, i |-> 0]
        ELSE [err |-> FALSE,
              i |-> IF s[1] = 45 THEN 0 - DigitsValue(digits, 0)
                    ELSE DigitsValue(digits, 0)]

\* strconv.Itoa of a natural number
RECURSIVE Itoa(_)
Itoa(n) == IF n < 10 THEN <<48 + n>> ELSE Itoa(n \div 10) \o <<48 + (n % 10)>>

\* xtoi2(s[x:], e): two hex digits, then the separator e or the end
xtoi2(s, x, e) ==
    /\ x + 1 <= Len(s)
    /\ IsHex(s[x]) /\ IsHex(s[x + 1])
    /\ x + 2 <= Len(s) => s[x + 2] = e

\* net.ParseMAC: 6, 8 or 20 groups of two hex digits joined by ':' or by
\* '-', or 3, 4 or 10 groups of four hex digits joined by '.'
ParseMAC(s) ==
    IF Len(s) < 14 THEN [err |-> TRUE, mac |-> <<>>]
    ELSE IF s[3] \in {58, 45}
    THEN LET n == (Len(s) + 1) \div 3
         IN  IF /\ (Len(s) + 1) % 3 = 0
                /\ n \in {6, 8, 20}
                /\ \A i \in 0..(n - 1) : xtoi2(s, 3 * i + 1, s[3])
             THEN [err |-> FALSE,
                   mac |-> [i \in 1..n |-> 16 * HexValue(s[3 * i - 2])
                                           + HexValue(s[3 * i - 1])]]
             ELSE [err |-> TRUE, mac |-> <<>>]
    ELSE IF s[5] = 46
    THEN LET g == (Len(s) + 1) \div 5
         IN  IF /\ (Len(s) + 1) % 5 = 0
                /\ 2 * g \in {6, 8, 20}
                /\ \A i \in 0..(g - 1) :
                      /\ IsHex(s[5 * i + 1]) /\ IsHex(s[5 * i + 2])
                      /\ xtoi2(s, 5 * i + 3, 46)
             THEN [err |-> FALSE,
                   mac |-> [i \in 1..(2 * g) |->
                               LET x == 5 * ((i - 1) \div 2) + 2 * ((i - 1) % 2) + 1
                               IN  16 * HexValue(s[x]) + HexValue(s[x + 1])]]
             ELSE [err |-> TRUE, mac |-> <<>>]
    ELSE [err |-> TRUE, mac |-> <<>>]

\* the lower-case hex digit of a nibble
HexDigit(v) == IF v < 10 THEN 48 + v ELSE 87 + v
UpperHexDigit(v) == IF v < 10 THEN 48 + v ELSE 55 + v

\* HardwareAddr.String(): lower-case hex pairs joined by ':'
RECURSIVE MACString(_)
MACString(mac) ==
    IF mac = <<>> THEN <<>>
    ELSE <<HexDigit(mac[1] \div 16), HexDigit(mac[1] % 16)>>
         \o (IF Len(mac) = 1 THEN <<>> ELSE <<58>> \o MACString(Tail(mac)))

\* url.QueryEscape: letters, digits, '-', '_', '.' and '~' stay, the blank
\* becomes '+', every other byte becomes %XX
EscapeByte(c) ==
    IF c \in 48..57 \/ c \in 65..90 \/ c \in 97..122 \/ c \in {45, 95, 46, 126}
    THEN <<c>>
    ELSE IF c = 32 THEN <<43>>
    ELSE <<37, UpperHexDigit(c \div 16), UpperHexDigit(c % 16)>>

RECURSIVE QueryEscape(_)
QueryEscape(s) ==
    IF s = <<>> THEN <<>>
    ELSE IF Len(s) = 1 THEN EscapeByte(s[1])
    ELSE QueryEscape(SubSeq(s, 1, Len(s) \div 2))
         \o QueryEscape(SubSeq(s, Len(s) \div 2 + 1, Len(s)))

\* strconv.Quote of a string of printable ASCII: '"' and '\' get a backslash
RECURSIVE QuoteBody(_)
QuoteBody(s) ==
    IF s = <<>> THEN <<>>
    ELSE IF Len(s) = 1 THEN (IF s[1] \in {34, 92} THEN <<92, s[1]>> ELSE s)
    ELSE QuoteBody(SubSeq(s, 1, Len(s) \div 2))
         \o QuoteBody(SubSeq(s, Len(s) \div 2 + 1, Len(s)))

Quote(s) == <<34>> \o QuoteBody(s) \o <<34>>

\* an argument of Sprintf: a string, or an int with its decimal digits
StringArg(s) == [t |-> TypeString, s |-> s]
IntArg(n) == [t |-> TypeInt, s |-> Itoa(n)]

\* the extra arguments fmt reports at the end of its output
RECURSIVE ExtraArgs(_)
ExtraArgs(args) ==
    IF args = <<>> THEN <<>>
    ELSE args[1].t \o <<61>> \o args[1].s
         \o (IF Len(args) = 1 THEN <<>> ELSE CommaBlank \o ExtraArgs(Tail(args)))

\* fmt.Sprintf for formats whose '%' is followed by '%' or by a verb letter:
\* %s and %v print a string, %q quotes it, %d and %v print an int, any other
\* pairing is
\* reported in the output as a bad verb; a missing argument is reported too
\* the place of the first '%' of a format, 0 if it has none
FirstVerb(format) ==
    IF \A i \in 1..Len(format) : format[i] # 37 THEN 0
    ELSE CHOOSE i \in 1..Len(format) :
            format[i] = 37 /\ \A j \in 1..(i - 1) : format[j] # 37

RECURSIVE Sprintf(_, _)
Sprintf(format, args) ==
    LET at == FirstVerb(format)
    IN  IF at = 0
        THEN format \o (IF args = <<>> THEN <<>>
                        ELSE ExtraOpen \o ExtraArgs(args) \o <<41>>)
        ELSE IF at = Len(format)
        THEN SubSeq(format, 1, at - 1) \o NoVerb \o Sprintf(<<>>, args)
        ELSE LET verb == format[at + 1]
                 rest == SubSeq(format, at + 2, Len(format))
             IN  SubSeq(format, 1, at - 1) \o
                 (IF verb = 37 THEN <<37>> \o Sprintf(rest, args)
                  ELSE IF args = <<>>
                  THEN BadVerbOpen \o <<verb>> \o Missing \o Sprintf(rest, args)
                  ELSE IF verb = 113 /\ args[1].t = TypeString
                  THEN Quote(args[1].s) \o Sprintf(rest, Tail(args))
                  ELSE IF \/ verb = 118
                          \/ verb = 115 /\ args[1].t = TypeString
                          \/ verb = 100 /\ args[1].t = TypeInt
                  THEN args[1].s \o Sprintf(rest, Tail(args))
                  ELSE BadVerbOpen \o <<verb, 40>> \o args[1].t \o <<61>> \o args[1].s
                       \o <<41>> \o Sprintf(rest, Tail(args)))

\* the first place at or after i where the bytes a, b stand in s; 0 if none
IndexFrom(s, i, a, b) ==
    LET at(j) == s[j] = a /\ s[j + 1] = b
    IN  IF \A j \in i..(Len(s) - 1) : ~at(j) THEN 0
        ELSE CHOOSE j \in i..(Len(s) - 1) : at(j) /\ \A k \in i..(j - 1) : ~at(k)

IsSpace(c) == c \in {32, 9, 10, 11, 12, 13}

\* strings.TrimSpace
RECURSIVE TrimLeft(_)
TrimLeft(s) == IF s # <<>> /\ IsSpace(s[1]) THEN TrimLeft(Tail(s)) ELSE s

RECURSIVE TrimRight(_)
TrimRight(s) ==
    IF s # <<>> /\ IsSpace(s[Len(s)]) THEN TrimRight(SubSeq(s, 1, Len(s) - 1)) ELSE s

TrimSpace(s) == TrimRight(TrimLeft(s))

HasPrefix(s, p) == Len(s) >= Len(p) /\ SubSeq(s, 1, Len(p)) = p

\* the string inside a quoted literal without escapes
Unquote(q) == SubSeq(q, 2, Len(q) - 1)

\* the function ID of ipxeScript: the /_/file URL of an id on serverHost
FuncID(id, funcs) ==
    [err |-> FALSE,
     out |-> Sprintf(FileURLFormat,
                     <<StringArg(funcs.host), StringArg(QueryEscape(id))>>)]

\* url.Parse(b.urlPrefix).ResolveReference(u) for a path reference: the
\* scheme and host of the base, then the path (a path that does not start
\* with '/' replaces the last segment of the base path)
RECURSIVE UpToLastSlash(_)
UpToLastSlash(s) ==
    IF s = <<>> \/ s[Len(s)] = 47 THEN s ELSE UpToLastSlash(SubSeq(s, 1, Len(s) - 1))

Origin(base) ==
    LET start == IndexFrom(base, 1, 47, 47)
        path == IF start = 0 THEN 0
                ELSE CHOOSE i \in (start + 2)..(Len(base) + 1) :
                        /\ i = Len(base) + 1 \/ base[i] = 47
                        /\ \A j \in (start + 2)..(i - 1) : base[j] # 47
    IN  IF start = 0 THEN base ELSE SubSeq(base, 1, path - 1)

ResolveReference(base, ref) ==
    IF ref = <<>> THEN base
    ELSE IF ref[1] = 47 THEN Origin(base) \o ref
    ELSE UpToLastSlash(base) \o ref

\* apibooter.makeURLAbsolute(urlStr)
makeURLAbsolute(urlStr, urlPrefix) ==
    IF ParseFails(urlStr) THEN [err |-> TRUE, url |-> <<>>]
    ELSE IF Scheme(urlStr) # <<>> THEN [err |-> FALSE, url |-> urlStr]
    ELSE IF ParseFails(urlPrefix) THEN [err |-> TRUE, url |-> <<>>]
    ELSE [err |-> FALSE, url |-> ResolveReference(urlPrefix, urlStr)]

\* the function URL of apibooter.BootSpec: the URL is made absolute and
\* signed, and comes back as a call of ID for ipxeScript to expand
SignedCall(abs, funcs) ==
    IF abs.err THEN [err |-> TRUE, out |-> <<>>]
    ELSE [err |-> FALSE,
          out |-> Sprintf(CallIDFormat,
                          <<StringArg(signURL(abs.url, funcs.key, funcs.nonce))>>)]

FuncURL(u, funcs) == SignedCall(makeURLAbsolute(u, funcs.urlPrefix), funcs)

\* one action of a cmdline template, between its {{ and }}: a call of the
\* function of the map on a quoted string is run; a call of a function the
\* map does not hold, and anything else that is no action, fails in Parse;
\* a field of the nil data, or a function that returns an error, fails in
\* Execute
CallResult(r) ==
    IF r.err THEN [err |-> "execute", out |-> <<>>] ELSE [err |-> "-", out |-> r.out]

TemplateAction(a, funcs) ==
    LET body == TrimSpace(a)
        name == IF funcs.name = "ID" THEN CallID ELSE CallURL
        arg == TrimSpace(SubSeq(body, Len(name) + 1, Len(body)))
    IN  IF /\ HasPrefix(body, name)
           /\ Len(arg) >= 2 /\ arg[1] = 34 /\ arg[Len(arg)] = 34
        THEN CallResult(IF funcs.name = "ID" THEN FuncID(Unquote(arg), funcs)
                        ELSE FuncURL(Unquote(arg), funcs))
        ELSE IF HasPrefix(body, <<46>>) /\ Len(body) > 1
        THEN [err |-> "execute", out |-> <<>>]
        ELSE [err |-> "parse", out |-> <<>>]

\* template.New("cmdline").Option("missingkey=error").Funcs(funcs).Parse(tpl)
\* and Execute(&out, nil)
\* the text before an action, the action and the rest of the template: an
\* error of Parse anywhere comes before an error of Execute
TextThen(text, act, rest) ==
    IF act.err = "parse" \/ rest.err = "parse" THEN [err |-> "parse", out |-> <<>>]
    ELSE IF act.err # "-" THEN act
    ELSE IF rest.err # "-" THEN rest
    ELSE [err |-> "-", out |-> text \o act.out \o rest.out]

RECURSIVE ExecuteTemplate(_, _)
ExecuteTemplate(tpl, funcs) ==
    LET open == IndexFrom(tpl, 1, 123, 123)
    IN  IF open = 0 THEN [err |-> "-", out |-> tpl]
        ELSE LET close == IndexFrom(tpl, open + 2, 125, 125)
             IN  IF close = 0 THEN [err |-> "parse", out |-> <<>>]
                 ELSE TextThen(SubSeq(tpl, 1, open - 1),
                               TemplateAction(SubSeq(tpl, open + 2, close - 1), funcs),
                               ExecuteTemplate(SubSeq(tpl, close + 2, Len(tpl)), funcs))

\* expandCmdline(tpl, funcs)
Executed(run) ==
    IF run.err # "-" THEN [err |-> TRUE, cmdline |-> <<>>]
    ELSE IF \E i \in 1..Len(TrimSpace(run.out)) : TrimSpace(run.out)[i] = 10
    THEN [err |-> TRUE, cmdline |-> <<>>]
    ELSE [err |-> FALSE, cmdline |-> TrimSpace(run.out)]

expandCmdlineKeepNewline(tpl, funcs) ==
    [err |-> ExecuteTemplate(tpl, funcs).err # "-",
     cmdline |-> TrimSpace(ExecuteTemplate(tpl, funcs).out)]

expandCmdline(tpl, funcs) == Executed(ExecuteTemplate(tpl, funcs))

\* the initrd lines of the script, from the i-th entry on
RECURSIVE InitrdLines(_, _, _, _)
InitrdLines(initrd, i, urlTemplate, mac) ==
    IF i > Len(initrd) THEN <<>>
    ELSE Sprintf(InitrdLineFormat,
                 <<IntArg(i - 1),
                   StringArg(Sprintf(urlTemplate,
                                     <<StringArg(QueryEscape(initrd[i])),
                                       StringArg(KindInitrd),
                                       StringArg(QueryEscape(MACString(mac)))>>))>>)
         \o InitrdLines(initrd, i + 1, urlTemplate, mac)

\* the initrd=initrd<i> words of the boot line
RECURSIVE InitrdWords(_, _)
InitrdWords(n, i) ==
    IF i >= n THEN <<>>
    ELSE Sprintf(InitrdWordFormat, <<IntArg(i)>>) \o InitrdWords(n, i + 1)

\* the lines ipxeScript writes once it has urlTemplate, with the expanded
\* cmdline at the end of the boot line
ScriptLines(mach, spec, serverHost, urlTemplate, cmdline) ==
    IF cmdline.err THEN [err |-> TRUE, script |-> <<>>]
    ELSE [err |-> FALSE,
          script |->
             Shebang
             \o Sprintf(KernelLineFormat,
                        <<StringArg(Sprintf(urlTemplate,
                                            <<StringArg(QueryEscape(spec.Kernel)),
                                              StringArg(KindKernel),
                                              StringArg(QueryEscape(MACString(mach.MAC)))>>))>>)
             \o InitrdLines(spec.Initrd, 1, urlTemplate, mach.MAC)
             \o Sprintf(ImgfetchLineFormat,
                        <<StringArg(serverHost),
                          StringArg(QueryEscape(MACString(mach.MAC)))>>)
             \o ImgfreeLine
             \o BootKernel
             \o InitrdWords(Len(spec.Initrd), 0)
             \o cmdline.cmdline
             \o <<10>>]

\* ipxeScript(mach, spec, serverHost)
ipxeScriptAnyKernel(mach, spec, serverHost) ==
    IF spec.IpxeScript # <<>> THEN [err |-> FALSE, script |-> spec.IpxeScript]
    ELSE ScriptLines(mach, spec, serverHost,
                     Sprintf(URLTemplateFormat, <<StringArg(serverHost)>>),
                     expandCmdline(spec.Cmdline, [name |-> "ID", host |-> serverHost]))

ipxeScript(mach, spec, serverHost) ==
    IF spec.IpxeScript # <<>> THEN [err |-> FALSE, script |-> spec.IpxeScript]
    ELSE IF spec.Kernel = <<>> THEN [err |-> TRUE, script |-> <<>>]
    ELSE ScriptLines(mach, spec, serverHost,
                     Sprintf(URLTemplateFormat, <<StringArg(serverHost)>>),
                     expandCmdline(spec.Cmdline, [name |-> "ID", host |-> serverHost]))

\* a response that nothing was written to yet
NoResponse == [code |-> 0, body |-> <<>>]

\* http.Error(w, msg, code): the status is set unless one was sent before,
\* and msg goes into the body as a line
HttpError(w, msg, code) ==
    [code |-> IF w.code = 0 THEN code ELSE w.code,
     body |-> Append(w.body, [error |-> msg])]

\* w.Write(data): the status becomes 200 unless one was sent before
Write(w, data) ==
    [code |-> IF w.code = 0 THEN 200 ELSE w.code,
     body |-> Append(w.body, [data |-> data])]

NoRequestYet == [path |-> "-"]

\* what a Booter may give for BootSpec: a spec or nil, an error or nil
NilSpec == <<>>

\* GET /_/ipxe?mac=macStr&arch=archStr on Host host; outcome is what the
\* Booter gives if it is asked
handleIpxe(macStr, archStr, host, outcome) ==
    LET mac == ParseMAC(macStr)
        i == Atoi(archStr)
        mach == [MAC |-> mac.mac, Arch |-> i.i]
        asked == <<[op |-> "BootSpec", mach |-> mach, spec |-> outcome.spec,
                    err |-> outcome.err]>>
    IN  /\ hreq = NoRequestYet
        /\ hreq' = [path |-> "/_/ipxe", mac |-> macStr, arch |-> archStr,
                    host |-> host]
        /\ IF macStr = <<>>
           THEN /\ hresp' = HttpError(NoResponse, "missing MAC address parameter", 400)
                /\ UNCHANGED <<hbooter, events>>
           ELSE IF archStr = <<>>
           THEN /\ hresp' = HttpError(NoResponse, "missing architecture parameter", 400)
                /\ UNCHANGED <<hbooter, events>>
           ELSE IF mac.err
           THEN /\ hresp' = HttpError(NoResponse, "invalid MAC address", 400)
                /\ UNCHANGED <<hbooter, events>>
           ELSE IF i.err
           THEN /\ hresp' = HttpError(NoResponse, "invalid architecture", 400)
                /\ UNCHANGED <<hbooter, events>>
           ELSE IF i.i \notin {ArchIA32, ArchX64}
           THEN /\ hresp' = HttpError(NoResponse, "unknown architecture", 400)
                /\ UNCHANGED <<hbooter, events>>
           ELSE /\ hbooter' = asked
                /\ IF outcome.err
                   THEN /\ hresp' = HttpError(NoResponse, "couldn't get a bootspec", 500)
                        /\ UNCHANGED events
                   ELSE IF outcome.spec = NilSpec
                   THEN /\ hresp' = HttpError(NoResponse, "you don't netboot", 404)
                        /\ UNCHANGED events
                   ELSE \E script \in {ipxeScript(mach, outcome.spec[1], host)} :
                            IF script.err
                            THEN /\ hresp' = HttpError(NoResponse,
                                                       "couldn't get a boot script", 500)
                                 /\ UNCHANGED events
                            ELSE /\ events' = Append(events,
                                                     [mac |-> mac.mac,
                                                      state |-> "machineStateIpxeScript"])
                                 /\ hresp' = Write(NoResponse, script.script)
        /\ UNCHANGED api

\* GET /_/file?name=name&type=type&mac=macStr; outcome is what the Booter
\* gives for ReadBootFile, copied tells whether io.Copy went through
handleFile(name, type, macStr, outcome, copied) ==
    LET w == IF name = <<>> THEN HttpError(NoResponse, "missing filename", 400)
             ELSE NoResponse
        mac == ParseMAC(macStr)
    IN  /\ hreq = NoRequestYet
        /\ hreq' = [path |-> "/_/file", name |-> name, type |-> type, mac |-> macStr]
        /\ hbooter' = <<[op |-> "ReadBootFile", id |-> name, sz |-> outcome.sz,
                         err |-> outcome.err]>>
        /\ IF outcome.err
           THEN /\ hresp' = HttpError(w, "couldn't get file", 500)
                /\ UNCHANGED events
           ELSE /\ hresp' = Write(w, [file |-> name, whole |-> copied])
                /\ IF copied /\ type \in {"kernel", "initrd"} /\ ~mac.err
                   THEN events' = Append(events,
                                         [mac |-> mac.mac,
                                          state |-> IF type = "kernel"
                                                    THEN "machineStateKernel"
                                                    ELSE "machineStateInitrd"])
                   ELSE UNCHANGED events
        /\ UNCHANGED api

\* byte strings in the order of sort.Strings
RECURSIVE Less(_, _)
Less(a, b) ==
    IF b = <<>> THEN FALSE
    ELSE IF a = <<>> THEN TRUE
    ELSE IF a[1] # b[1] THEN a[1] < b[1]
    ELSE Less(Tail(a), Tail(b))

RECURSIVE SortStrings(_)
SortStrings(keys) ==
    IF keys = {} THEN <<>>
    ELSE LET least == CHOOSE k \in keys : \A o \in keys \ {k} : Less(k, o)
         IN  <<least>> \o SortStrings(keys \ {least})

\* apibooter.constructCmdline(m), from the k-th of the sorted keys on
RECURSIVE constructCmdlineFrom(_, _, _)
constructCmdlineFrom(m, c, k) ==
    IF k > Len(c) THEN [err |-> FALSE, words |-> <<>>]
    ELSE LET v == m[c[k]]
             rest == constructCmdlineFrom(m, c, k + 1)
             word == IF v.kind = "bool" THEN c[k]
                     ELSE IF v.kind = "string"
                     THEN Sprintf(StringWordFormat, <<StringArg(c[k]), StringArg(v.s)>>)
                     ELSE Sprintf(URLWordFormat, <<StringArg(c[k]), StringArg(v.s)>>)
         IN  IF v.kind \notin {"bool", "string", "url"} THEN [err |-> TRUE, words |-> <<>>]
             ELSE IF rest.err THEN rest
             ELSE [err |-> FALSE, words |-> <<word>> \o rest.words]

\* strings.Join(ret, " ")
RECURSIVE Join(_)
Join(words) ==
    IF words = <<>> THEN <<>>
    ELSE IF Len(words) = 1 THEN words[1]
    ELSE words[1] \o <<32>> \o Join(Tail(words))

constructCmdline(m) ==
    LET made == constructCmdlineFrom(m, SortStrings(DOMAIN m), 1)
    IN  [err |-> made.err, cmdline |-> Join(made.words)]

\* the k-th nonce the random source gives within one call of BootSpec
NonceAt(nonce, k) == [i \in 1..NonceLen |-> (nonce[i] + k) % 256]

\* the signed ids of the initrds
signInitrds(urls, key, nonce) ==
    [i \in 1..Len(urls) |-> signURL(urls[i], key, NonceAt(nonce, i))]

NoSpecNoError == [spec |-> NilSpec, err |-> FALSE]
NoSpecButError == [spec |-> NilSpec, err |-> TRUE]

\* apibooter.getAPIResponse(hw): the body, or an error when the GET fails
\* or the status is not 200
getAPIResponseNoError(answer) ==
    IF answer.failed THEN [body |-> <<>>, err |-> TRUE]
    ELSE IF answer.status # 200 THEN [body |-> <<>>, err |-> FALSE]
    ELSE [body |-> <<answer.body>>, err |-> FALSE]

getAPIResponse(answer) ==
    IF answer.failed THEN [body |-> <<>>, err |-> TRUE]
    ELSE IF answer.status # 200 THEN [body |-> <<>>, err |-> TRUE]
    ELSE [body |-> <<answer.body>>, err |-> FALSE]

\* apibooter.BootSpec(m), for the answer the boot API gives and the nonce
\* the random source gives
BootSpecFor(urlPrefix, key, answer, nonce) ==
    LET resp == getAPIResponse(answer)
    IN  IF resp.err \/ resp.body = <<>> THEN [spec |-> NilSpec, err |-> resp.err]
        ELSE LET r == resp.body[1]
             IN  IF r.malformed THEN NoSpecButError
                 ELSE IF r.IpxeScript # <<>>
                 THEN [spec |-> <<[Kernel |-> <<>>, Initrd |-> <<>>,
                                   Cmdline |-> <<>>, Message |-> <<>>,
                                   IpxeScript |-> r.IpxeScript]>>,
                       err |-> FALSE]
                 ELSE LET kernel == makeURLAbsolute(r.Kernel, urlPrefix)
                          initrd == [i \in 1..Len(r.Initrd) |->
                                        makeURLAbsolute(r.Initrd[i], urlPrefix)]
                          made == IF r.Cmdline.kind = "nil"
                                  THEN [err |-> FALSE, cmdline |-> <<>>]
                                  ELSE IF r.Cmdline.kind = "string"
                                  THEN [err |-> FALSE, cmdline |-> r.Cmdline.s]
                                  ELSE IF r.Cmdline.kind = "map"
                                  THEN constructCmdline(r.Cmdline.m)
                                  ELSE [err |-> TRUE, cmdline |-> <<>>]
                          cmdline == expandCmdline(made.cmdline,
                                        [name |-> "URL", urlPrefix |-> urlPrefix,
                                         key |-> key,
                                         nonce |-> NonceAt(nonce, Len(r.Initrd) + 1)])
                      IN  IF kernel.err \/ \E i \in 1..Len(initrd) : initrd[i].err
                          THEN NoSpecButError
                          ELSE IF made.err THEN NoSpecButError
                          ELSE IF cmdline.err THEN NoSpecButError
                          ELSE [spec |-> <<[Kernel |-> signURL(kernel.url, key, nonce),
                                            Initrd |-> signInitrds(
                                                [i \in 1..Len(initrd) |-> initrd[i].url],
                                                 key, nonce),
                                            Cmdline |-> cmdline.cmdline,
                                            Message |-> r.Message,
                                            IpxeScript |-> <<>>]>>,
                                err |-> FALSE]

\* APIBooter(url, timeout) with url = "http://api/": the prefix is url + "v1"
APIPrefix == <<104, 116, 116, 112, 58, 47, 47, 97, 112, 105, 47, 118, 49>> (* "http://api/v1" *)

\* ---- what the boot API may answer ----
NoCmdline == [kind |-> "nil", s |-> <<>>, m |-> <<>>]
StringCmdline(s) == [kind |-> "string", s |-> s, m |-> <<>>]
MapCmdline(m) == [kind |-> "map", s |-> <<>>, m |-> m]
NumberCmdline == [kind |-> "number", s |-> <<>>, m |-> <<>>]

BoolValue == [kind |-> "bool", s |-> <<>>]
StringValue(s) == [kind |-> "string", s |-> s]
URLValue(u) == [kind |-> "url", s |-> u]
NumberValue == [kind |-> "number", s |-> <<>>]

APICmdlines ==
    {NoCmdline, NumberCmdline,
     StringCmdline(<<97, 32, 123, 123, 32, 85, 82, 76, 32, 34, 47, 113, 34, 32, 125, 125>> (* "a {{ URL \"/q\" }}" *)),
     StringCmdline(<<123, 123, 32, 73, 68, 32, 34, 113, 34, 32, 125, 125>> (* "{{ ID \"q\" }}" *)),
     MapCmdline((<<98>> (* "b" *) :> BoolValue) @@ (<<97>> (* "a" *) :> StringValue(<<120, 32, 121>> (* "x y" *)))
                @@ (<<117>> (* "u" *) :> URLValue(<<47, 113>> (* "/q" *)))),
     MapCmdline(<<110>> (* "n" *) :> NumberValue)}

Malformed ==
    [malformed |-> TRUE, Kernel |-> <<>>, Initrd |-> <<>>, Cmdline |-> NoCmdline,
     Message |-> <<>>, IpxeScript |-> <<>>]

APIBodies ==
    {Malformed,
     [Malformed EXCEPT !.malformed = FALSE, !.IpxeScript = <<35, 33, 105, 112, 120, 101, 10, 115, 104, 101, 108, 108, 10>> (* "#!ipxe\nshell\n" *)]}
    \cup {[Malformed EXCEPT !.malformed = FALSE, !.Kernel = <<47, 107>> (* "/k" *),
                            !.Initrd = <<<<104, 116, 116, 112, 58, 47, 47, 111, 47, 105>> (* "http://o/i" *)>>, !.Cmdline = c,
                            !.Message = <<104, 105>> (* "hi" *)] : c \in APICmdlines}
    \cup {[Malformed EXCEPT !.malformed = FALSE, !.Kernel = <<47, 127>>]}

APIAnswers ==
    {[failed |-> TRUE, status |-> 0, body |-> Malformed]}
    \cup {[failed |-> FALSE, status |-> 200, body |-> b] : b \in APIBodies}
    \cup {[failed |-> FALSE, status |-> st, body |-> b] :
             st \in {404, 500}, b \in {Malformed}}

\* ---- what a Booter of any kind may give ----
IDs == {<<107, 61, 49>> (* "k=1" *), <<105, 32, 50>> (* "i 2" *)}

Cmdlines ==
    {<<>>, <<97, 61, 98>> (* "a=b" *), <<32, 97, 61, 123, 123, 32, 73, 68, 32, 34, 102, 32, 103, 34, 32, 125, 125, 32, 10>> (* " a={{ ID \"f g\" }} \n" *), <<97, 10, 98>> (* "a\nb" *), <<123, 123, 32, 73, 68, 32, 34, 102, 34>> (* "{{ ID \"f\"" *),
     <<123, 123, 32, 85, 82, 76, 32, 34, 102, 34, 32, 125, 125>> (* "{{ URL \"f\" }}" *), <<123, 123, 32, 46, 120, 32, 125, 125>> (* "{{ .x }}" *)}

Specs ==
    {[Kernel |-> k, Initrd |-> i, Cmdline |-> c, Message |-> <<>>, IpxeScript |-> s] :
        k \in {<<>>, <<107, 61, 49>> (* "k=1" *)},
        i \in UNION {[1..n -> IDs] : n \in 0..MaxInitrd},
        c \in Cmdlines,
        s \in {<<>>, <<35, 33, 105, 112, 120, 101, 10, 115, 104, 101, 108, 108, 10>> (* "#!ipxe\nshell\n" *)}}

BootSpecOutcomes ==
    {[spec |-> s, err |-> e] : s \in {NilSpec} \cup {<<x>> : x \in Specs},
                               e \in BOOLEAN}
    \cup {BootSpecFor(APIPrefix, ProcessKey, a, n) : a \in APIAnswers, n \in Nonces}

ReadBootFileOutcomes ==
    {[err |-> TRUE, sz |-> 0 - 1], [err |-> FALSE, sz |-> 0 - 1],
     [err |-> FALSE, sz |-> 9]}

\* ---- what a client may send ----
MACStrings ==
    {<<>>, <<97, 110, 121>> (* "any" *), <<48, 49, 58, 48, 50, 58, 48, 51, 58, 48, 52, 58, 48, 53, 58, 48, 54>> (* "01:02:03:04:05:06" *), <<70, 69, 45, 70, 69, 45, 70, 69, 45, 70, 69, 45, 70, 69, 45, 70, 69>> (* "FE-FE-FE-FE-FE-FE" *),
     <<48, 49, 48, 50, 46, 48, 51, 48, 52, 46, 48, 97, 48, 66>> (* "0102.0304.0a0B" *), <<48, 49, 58, 48, 50, 58, 48, 51, 58, 48, 52, 58, 48, 53, 58, 48, 103>> (* "01:02:03:04:05:0g" *), <<48, 49, 58, 48, 50, 58, 48, 51, 58, 48, 52, 58, 48, 53, 45, 48, 54>> (* "01:02:03:04:05-06" *)}

ArchStrings == {<<>>, <<48>> (* "0" *), <<49>> (* "1" *), <<43, 49>> (* "+1" *), <<120, 56, 54>> (* "x86" *), <<52, 50>> (* "42" *), <<45, 49>> (* "-1" *)}

Hosts == {<<104, 58, 56, 48>> (* "h:80" *), <<91, 102, 101, 56, 48, 58, 58, 49, 37, 101, 116, 104, 48, 93>> (* "[fe80::1%eth0]" *)}

NoAPICall == [asked |-> <<>>]

\* apibooter.BootSpec(m) as a call of its own
BootSpec(macStr, answer, nonce) ==
    /\ hreq = NoRequestYet
    /\ api = NoAPICall
    /\ ~ParseMAC(macStr).err
    /\ api' = [asked |-> Sprintf(BootURLFormat,
                                 <<StringArg(APIPrefix),
                                   StringArg(MACString(ParseMAC(macStr).mac))>>),
               answer |-> answer,
               out |-> BootSpecFor(APIPrefix, ProcessKey, answer, nonce)]
    /\ UNCHANGED <<hreq, hresp, hbooter, events>>

HttpInit ==
    /\ hreq = NoRequestYet
    /\ hresp = NoResponse
    /\ hbooter = <<>>
    /\ events = <<>>
    /\ api = NoAPICall

HttpNext ==
    \/ /\ hreq = NoRequestYet /\ api = NoAPICall
       /\ \E macStr \in MACStrings, archStr \in ArchStrings, host \in Hosts :
             \E outcome \in IF ParseMAC(macStr).err \/ Atoi(archStr).err
                             THEN {NoSpecNoError} ELSE BootSpecOutcomes :
                handleIpxe(macStr, archStr, host, outcome)
       /\ UNCHANGED <<poolVars, serverVars, dhcpVars, concVars, signVars, builderVars, leaseVars, staticVars, codecVars>>
    \/ /\ hreq = NoRequestYet /\ api = NoAPICall
       /\ \E name \in {<<>>} \cup IDs, type \in {"", "kernel", "initrd", "other"},
             macStr \in MACStrings, outcome \in ReadBootFileOutcomes,
             copied \in BOOLEAN :
             handleFile(name, type, macStr, outcome, copied)
       /\ UNCHANGED <<poolVars, serverVars, dhcpVars, concVars, signVars, builderVars, leaseVars, staticVars, codecVars>>
    \/ /\ hreq = NoRequestYet /\ api = NoAPICall
       /\ \E macStr \in MACStrings, answer \in APIAnswers, nonce \in Nonces :
             BootSpec(macStr, answer, nonce)
       /\ UNCHANGED <<poolVars, serverVars, dhcpVars, concVars, signVars, builderVars, leaseVars, staticVars, codecVars>>

(***************************************************************************)
(* A PacketBuilder of any preferred lifetime: MakePacketBuilder keeps the   *)
(* lifetime it is given, and every IA_NA option of an Advertise or Reply   *)
(* carries b.calculateT1() and b.calculateT2().                            *)
(***************************************************************************)
NoBuilder == [made |-> FALSE]

\* the halves the preferred lifetimes are drawn from
LifetimeHalves ==
    {0, 1, 2, 3, 4, 5, 6, 16383, 16384, 16385, 32767, 32768, 52428, 52429, 65535}

\* MakePacketBuilder(preferredLifetime, validLifetime) and the
\* T1 and T2 that MakeIaNaOption is given in makeMsgAdvertise and
\* makeMsgReply
MakePacketBuilder(preferredLifetime) ==
    /\ pbuilder = NoBuilder
    /\ pbuilder' = [made |-> TRUE,
                 PreferredLifetime |-> preferredLifetime,
                 t1 |-> calculateT1(preferredLifetime),
                 t2 |-> calculateT2(preferredLifetime)]

BuilderInit == pbuilder = NoBuilder

BuilderNext ==
    /\ pbuilder = NoBuilder
    /\ \E hi \in LifetimeHalves, lo \in LifetimeHalves :
          MakePacketBuilder([hi |-> hi, lo |-> lo])
    /\ UNCHANGED <<poolVars, serverVars, dhcpVars, concVars, signVars, httpVars, leaseVars, staticVars, codecVars>>

(***************************************************************************)
(* StaticBooter: one Spec for every machine.  The ids of the caller's Spec *)
(* are kept in the booter and the Spec it hands out names them by tags.    *)
(***************************************************************************)
\* "initrd-"
InitrdTag == <<105, 110, 105, 116, 114, 100, 45>>
\* "other-"
OtherTag == <<111, 116, 104, 101, 114, 45>>
\* "initrd-%d"
InitrdTagFormat == InitrdTag \o <<37, 100>>
\* "{{ ID \"other-%d\" }}"
OtherCallFormat == <<123, 123, 32, 73, 68, 32, 34>> \o OtherTag \o <<37, 100, 34, 32, 125, 125>>

\* one action of the cmdline template with the function ID of StaticBooter:
\* the k-th call keeps its argument and gives a call of ID on "other-k"
StaticAction(a, k) ==
    LET body == TrimSpace(a)
        arg == TrimSpace(SubSeq(body, Len(CallID) + 1, Len(body)))
    IN  IF /\ HasPrefix(body, CallID)
           /\ Len(arg) >= 2 /\ arg[1] = 34 /\ arg[Len(arg)] = 34
        THEN [err |-> "-", out |-> Sprintf(OtherCallFormat, <<IntArg(k)>>),
              ids |-> <<Unquote(arg)>>]
        ELSE IF HasPrefix(body, <<46>>) /\ Len(body) > 1
        THEN [err |-> "execute", out |-> <<>>, ids |-> <<>>]
        ELSE [err |-> "parse", out |-> <<>>, ids |-> <<>>]

StaticThen(text, act, rest) ==
    IF act.err = "parse" \/ rest.err = "parse"
    THEN [err |-> "parse", out |-> <<>>, ids |-> <<>>]
    ELSE IF act.err # "-" THEN act
    ELSE IF rest.err # "-" THEN rest
    ELSE [err |-> "-", out |-> text \o act.out \o rest.out,
          ids |-> act.ids \o rest.ids]

\* the template run with the function ID of StaticBooter, k ids kept so far
RECURSIVE StaticExecute(_, _)
StaticExecute(tpl, k) ==
    LET open == IndexFrom(tpl, 1, 123, 123)
    IN  IF open = 0 THEN [err |-> "-", out |-> tpl, ids |-> <<>>]
        ELSE LET close == IndexFrom(tpl, open + 2, 125, 125)
             IN  IF close = 0 THEN [err |-> "parse", out |-> <<>>, ids |-> <<>>]
                 ELSE StaticThen(SubSeq(tpl, 1, open - 1),
                                 StaticAction(SubSeq(tpl, open + 2, close - 1), k),
                                 StaticExecute(SubSeq(tpl, close + 2, Len(tpl)), k + 1))

NoStaticBooter == <<>>
NoReadYet == <<>>

\* the staticBooter, given the spec and the run of its cmdline template
MadeBooter(spec, run, cmdline) ==
    IF cmdline.err THEN [err |-> TRUE]
    ELSE [err |-> FALSE,
          kernel |-> spec.Kernel,
          initrd |-> spec.Initrd,
          otherIDs |-> run.ids,
          spec |-> [Kernel |-> KindKernel,
                    Initrd |-> [i \in 1..Len(spec.Initrd) |->
                                   Sprintf(InitrdTagFormat, <<IntArg(i - 1)>>)],
                    Cmdline |-> cmdline.cmdline,
                    Message |-> spec.Message,
                    IpxeScript |-> <<>>]]

StaticBooter(spec) ==
    /\ sbooter = NoStaticBooter
    /\ \E run \in {StaticExecute(spec.Cmdline, 0)} :
          sbooter' = <<MadeBooter(spec, run, Executed(run))>>
    /\ UNCHANGED <<sgot, sread>>

\* staticBooter.BootSpec(m)
StaticBootSpec(m) ==
    /\ sbooter # NoStaticBooter /\ ~sbooter[1].err
    /\ sgot' = <<[m |-> m, spec |-> sbooter[1].spec, err |-> FALSE]>>
    /\ UNCHANGED <<sbooter, sread>>

\* staticBooter.serveFile(path): the URL is fetched or the file opened
serveFile(path, ok) ==
    [err |-> ~ok,
     opened |-> <<[kind |-> IF HasPrefix(path, SchemeHTTP) \/ HasPrefix(path, SchemeHTTPS)
                            THEN "get" ELSE "open",
                   path |-> path]>>]

NoFileWithID == [err |-> TRUE, opened |-> <<>>]

\* the file of the list that the decimal number after the tag names
IndexedFile(number, files, ok) ==
    IF number.err \/ number.i < 0 \/ number.i >= Len(files) THEN NoFileWithID
    ELSE serveFile(files[number.i + 1], ok)

\* staticBooter.ReadBootFile(id); ok tells whether the open or GET goes well
StaticReadBootFile(id, ok) ==
    /\ sbooter # NoStaticBooter /\ ~sbooter[1].err
    /\ sread' = <<[id |-> id,
                   out |-> IF id = KindKernel THEN serveFile(sbooter[1].kernel, ok)
                           ELSE IF HasPrefix(id, InitrdTag)
                           THEN IndexedFile(Atoi(SubSeq(id, 8, Len(id))),
                                            sbooter[1].initrd, ok)
                           ELSE IF HasPrefix(id, OtherTag)
                           THEN IndexedFile(Atoi(SubSeq(id, 7, Len(id))),
                                            sbooter[1].otherIDs, ok)
                           ELSE NoFileWithID]>>
    /\ UNCHANGED <<sbooter, sgot>>

\* ---- the specs a caller may give, the machines and the ids asked for ----
StaticCmdlines ==
    {<<>>, <<97, 61, 123, 123, 32, 73, 68, 32, 34, 102, 34, 32, 125, 125>> (* "a={{ ID \"f\" }}" *),
     <<123, 123, 32, 73, 68, 32, 34, 102, 34, 125, 125, 32, 123, 123, 73, 68, 32, 34, 104, 116, 116, 112, 58, 47, 47, 103, 34, 32, 125, 125>> (* "{{ ID \"f\"}} {{ID \"http://g\" }}" *),
     <<123, 123, 32, 73, 68, 32, 34, 102, 34>> (* "{{ ID \"f\"" *)}

StaticSpecs ==
    {[Kernel |-> k, Initrd |-> i, Cmdline |-> c, Message |-> <<104, 105>>, IpxeScript |-> <<>>] :
        k \in {<<47, 107>> (* "/k" *), <<104, 116, 116, 112, 115, 58, 47, 47, 107>> (* "https://k" *)},
        i \in UNION {[1..n -> IDs] : n \in 0..MaxInitrd},
        c \in StaticCmdlines}

StaticMachines ==
    {[MAC |-> <<1, 2, 3, 4, 5, 6>>, Arch |-> ArchIA32],
     [MAC |-> <<2, 3, 4, 5, 6, 7>>, Arch |-> ArchX64]}

\* what may follow a tag: "", "0", "1", "2", "3", "00", "+0", "-0", "-1",
\* "0x", "x"
TagSuffixes ==
    {<<>>, <<48>>, <<49>>, <<50>>, <<51>>, <<48, 48>>, <<43, 48>>, <<45, 48>>,
     <<45, 49>>, <<48, 120>>, <<120>>}

AskedIDs ==
    {KindKernel, KindKernel \o <<48>>, <<>>, <<47, 107>>}
    \cup {InitrdTag \o x : x \in TagSuffixes}
    \cup {OtherTag \o x : x \in TagSuffixes}

StaticInit ==
    /\ sbooter = NoStaticBooter
    /\ sgot = <<>>
    /\ sread = NoReadYet

StaticNext ==
    \/ (sbooter = NoStaticBooter /\ \E spec \in StaticSpecs : StaticBooter(spec)
          /\ UNCHANGED <<poolVars, serverVars, dhcpVars, concVars, signVars, httpVars, builderVars, leaseVars, codecVars>>)
    \/ (\E m \in StaticMachines : StaticBootSpec(m)
          /\ UNCHANGED <<poolVars, serverVars, dhcpVars, concVars, signVars, httpVars, builderVars, leaseVars, codecVars>>)
    \/ (\E id \in AskedIDs, ok \in BOOLEAN : StaticReadBootFile(id, ok)
          /\ UNCHANGED <<poolVars, serverVars, dhcpVars, concVars, signVars, httpVars, builderVars, leaseVars, codecVars>>)

(***************************************************************************)
(* The packet codec on bytes.  A Go slice is kept as the bytes up to its   *)
(* capacity, b, and its length, n: s[lo:hi] needs lo <= hi <= cap(s) and   *)
(* s[lo:] needs lo <= len(s), or the program panics.                       *)
(***************************************************************************)
\* options in a datagram the model builds
MaxOptions == 3

\* OptOro
OptOro == 6

CanSlice(s, lo, hi) == lo <= hi /\ hi <= Len(s.b)
Sliced(s, lo, hi) == [b |-> SubSeq(s.b, lo + 1, Len(s.b)), n |-> hi - lo]

\* binary.BigEndian.Uint16(b[at:at+2]) and the two bytes binary.Write gives
BigEndianUint16(b, at) == b[at] * 256 + b[at + 1]
BigEndianBytes(n) == <<(n \div 256) % 256, n % 256>>

CodecPanic == [res |-> "panic", o |-> <<>>]
CodecError == [res |-> "error", o |-> <<>>]

\* UnmarshalOption(bs) on bytes
UnmarshalOptionBytes(bs) ==
    IF ~CanSlice(bs, 2, 4) THEN CodecPanic
    ELSE IF BigEndianUint16(bs.b, 1) = OptOro
    THEN IF BigEndianUint16(bs.b, 3) % 2 # 0 THEN CodecError
         ELSE IF ~CanSlice(bs, 4, 4 + BigEndianUint16(bs.b, 3)) THEN CodecPanic
         ELSE [res |-> "ok",
               o |-> [ID |-> BigEndianUint16(bs.b, 1),
                      Length |-> BigEndianUint16(bs.b, 3),
                      Value |-> SubSeq(bs.b, 5, 4 + BigEndianUint16(bs.b, 3))]]
    ELSE IF ~CanSlice(bs, 4, bs.n) THEN CodecPanic
    ELSE IF bs.n - 4 < BigEndianUint16(bs.b, 3) THEN CodecError
    ELSE [res |-> "ok",
          o |-> [ID |-> BigEndianUint16(bs.b, 1),
                 Length |-> BigEndianUint16(bs.b, 3),
                 Value |-> SubSeq(bs.b, 5, 4 + BigEndianUint16(bs.b, 3))]]

\* ret[o.ID] = append(ret[o.ID], &Option{...})
AppendOption(ret, o) ==
    MapPut(ret, o.ID, (IF o.ID \in DOMAIN ret THEN ret[o.ID] ELSE <<>>) \o <<o>>)

\* UnmarshalOptions(bs) on bytes, with the options read so far
RECURSIVE UnmarshalOptionsBytes(_, _)
OptionRead(bs, ret, r) ==
    IF r.res # "ok" THEN r
    ELSE IF ~CanSlice(bs, 4 + r.o.Length, bs.n) THEN CodecPanic
    ELSE UnmarshalOptionsBytes(Sliced(bs, 4 + r.o.Length, bs.n),
                               AppendOption(ret, r.o))

UnmarshalOptionsBytes(bs, ret) ==
    IF bs.n = 0 THEN [res |-> "ok", o |-> ret]
    ELSE OptionRead(bs, ret, UnmarshalOptionBytes(bs))

NoOptions == <<>>
NoPacket == [res |-> "-", p |-> <<>>]

PacketOf(bs, options) ==
    IF options.res # "ok" THEN [res |-> options.res, p |-> <<>>]
    ELSE [res |-> "ok",
          p |-> <<[Type |-> bs[1], TransactionID |-> SubSeq(bs, 2, 4),
                   Options |-> options.o]>>]

\* Unmarshal(bs, packetLength) on bytes
UnmarshalBytes(bs, packetLength) ==
    IF ~CanSlice([b |-> bs, n |-> Len(bs)], 4, packetLength)
    THEN [res |-> "panic", p |-> <<>>]
    ELSE PacketOf(bs, UnmarshalOptionsBytes(
                          Sliced([b |-> bs, n |-> Len(bs)], 4, packetLength),
                          NoOptions))

MarshalOptionLowID(o) == <<0, o.ID % 256>> \o BigEndianBytes(o.Length) \o o.Value

\* Option.Marshal
MarshalOption(o) == BigEndianBytes(o.ID) \o BigEndianBytes(o.Length) \o o.Value

\* the options of one ID, from the k-th on
RECURSIVE MarshalEach(_, _)
MarshalEach(multipleOptions, k) ==
    IF k > Len(multipleOptions) THEN <<>>
    ELSE MarshalOption(multipleOptions[k]) \o MarshalEach(multipleOptions, k + 1)

\* Options.Marshal: range over a map visits the IDs in an order of its own
RECURSIVE MarshalOptions(_, _, _)
MarshalOptions(o, order, k) ==
    IF k > Len(order) THEN <<>>
    ELSE MarshalEach(o[order[k]], 1) \o MarshalOptions(o, order, k + 1)

\* Packet.Marshal
MarshalPacket(p, order) ==
    <<p.Type % 256>> \o p.TransactionID \o MarshalOptions(p.Options, order, 1)

\* the orders in which range may visit the keys of the map
Orders(o) ==
    {f \in [1..Cardinality(DOMAIN o) -> DOMAIN o] :
        \A i, j \in 1..Cardinality(DOMAIN o) : f[i] = f[j] => i = j}

\* ---- the datagrams read ----
\* options as they may stand in a datagram: Client-ID 07, Client-ID 08 09,
\* an empty IA_NA, an Option Request for 59, option 257 with value 07, an
\* Option Request of odd length, an Option Request longer than the
\* datagram, a Server-ID cut short and two stray bytes
Chunks ==
    {<<0, 1, 0, 1, 7>>, <<0, 1, 0, 2, 8, 9>>, <<0, 3, 0, 0>>, <<0, 6, 0, 2, 0, 59>>,
     <<1, 1, 0, 1, 7>>, <<0, 6, 0, 1, 0>>, <<0, 6, 0, 4, 0, 59>>, <<0, 2, 0, 3, 1>>,
     <<0, 6>>}

RECURSIVE Flatten(_)
Flatten(seqs) == IF seqs = <<>> THEN <<>> ELSE Head(seqs) \o Flatten(Tail(seqs))

\* what the buffer holds behind the datagram
Stale == {<<>>, <<0, 0, 0, 0>>}

Wires ==
    {[b |-> <<t, 0, 0, 1>> \o Flatten(c) \o st, n |-> 4 + Len(Flatten(c))] :
        t \in {MsgSolicit, 255},
        c \in UNION {[1..k -> Chunks] : k \in 0..MaxOptions},
        st \in Stale}
    \cup {[b |-> <<1, 0, 0, 1>>, n |-> 3]}

CodecInit ==
    /\ cin = <<>>
    /\ cpkt = NoPacket
    /\ cout = <<>>
    /\ cback = NoPacket

\* RecvDHCP: pkt, err := Unmarshal(b, n)
CodecUnmarshal(w) ==
    /\ cin = <<>>
    /\ cin' = <<w>>
    /\ cpkt' = UnmarshalBytes(w.b, w.n)
    /\ UNCHANGED <<cout, cback>>

\* p.Marshal()
CodecMarshal(order) ==
    /\ cpkt.res = "ok" /\ cout = <<>>
    /\ cout' = <<MarshalPacket(cpkt.p[1], order)>>
    /\ UNCHANGED <<cin, cpkt, cback>>

\* Unmarshal(bs, len(bs)) of the marshalled bytes
CodecUnmarshalBack ==
    /\ cout # <<>> /\ cback = NoPacket
    /\ cback' = UnmarshalBytes(cout[1], Len(cout[1]))
    /\ UNCHANGED <<cin, cpkt, cout>>

CodecNext ==
    \/ (cin = <<>> /\ \E w \in Wires : CodecUnmarshal(w)
          /\ UNCHANGED <<poolVars, serverVars, dhcpVars, concVars, signVars, httpVars, builderVars, leaseVars, staticVars>>)
    \/ (cpkt.res = "ok" /\ \E order \in Orders(cpkt.p[1].Options) : CodecMarshal(order)
          /\ UNCHANGED <<poolVars, serverVars, dhcpVars, concVars, signVars, httpVars, builderVars, leaseVars, staticVars>>)
    \/ (CodecUnmarshalBack
          /\ UNCHANGED <<poolVars, serverVars, dhcpVars, concVars, signVars, httpVars, builderVars, leaseVars, staticVars>>)

(***************************************************************************)
(* One client and its lease: the client solicits, requests and releases   *)
(* one IA_NA.  offered remembers the address of the last Advertise and the *)
(* time its reservation was made; a Release forgets it.                    *)
(***************************************************************************)
\* datagrams serveDHCP reads in the life of the lease
MaxLeasePackets == 4

NoOffer == <<>>

LeaseDatagrams ==
    {MakePacket(ts[1], x, <<CidA>>, ts[2], <<OroBoot>>, <<IaNaA>>, <<>>, <<>>) :
        ts \in {<<MsgSolicit, <<>>>>, <<MsgRequest, <<Duid>>>>,
                <<MsgRelease, <<Duid>>>>},
        x \in TransactionIDs}

\* the addresses the IA_NA options of a response carry for iaid
AddressesFor(response, iaid) ==
    {response.Options[k].Value.option.Value.addr :
        k \in {j \in 1..Len(response.Options) :
                  /\ response.Options[j].ID = OptIaNa
                  /\ response.Options[j].Value.iaid = iaid
                  /\ response.Options[j].Value.option.ID = OptIaAddr}}

\* one iteration of serveDHCP for a datagram of the client
serveLease(d) ==
    /\ handled < MaxLeasePackets
    /\ serveDHCPOnce(d)
    /\ offered' =
          IF d.Type = MsgRelease THEN NoOffer
          ELSE IF /\ d.Type = MsgSolicit /\ Len(lastReplies') = 1
                  /\ AddressesFor(lastReplies'[1], SubSeq(IaNaA, 1, 4)) # {}
          THEN <<[addr |-> CHOOSE a \in AddressesFor(lastReplies'[1],
                                                     SubSeq(IaNaA, 1, 4)) : TRUE,
                  since |-> identityAssociations'[
                               calculateIAIDHash(CidA, SubSeq(IaNaA, 1, 4))].CreatedAt]>>
          ELSE offered

LeaseInit == offered = NoOffer

LeaseNext ==
    /\ handled < MaxLeasePackets
    /\ \E d \in LeaseDatagrams : serveLease(d)
    /\ UNCHANGED <<concVars, signVars, httpVars, builderVars, staticVars, codecVars>>

\* NewRandomAddressPool
PoolInit ==
    /\ poolSize \in 1..MaxPoolSize
    /\ timeNow = 0
    /\ identityAssociations = <<>>
    /\ usedIps = {}
    /\ identityAssociationExpirations = <<>>
    /\ lastCall = [op |-> "new", clientID |-> <<>>, interfaceIDs |-> <<>>,
                   ret |-> <<>>, err |-> FALSE, expired |-> {}]

\* a ReserveAddresses call; the clock has moved forward by any amount since
\* the call before
PoolReserve ==
    \E c \in ClientIDs, ids \in IDLists, now \in timeNow..MaxTime :
        \E picks \in [1..Len(ids) -> 0..(poolSize - 1)] :
            ReserveAddresses(c, ids, picks, now) /\ UNCHANGED <<dhcpVars, concVars, signVars, httpVars, builderVars, leaseVars, staticVars, codecVars>>

PoolRelease ==
    \E c \in ClientIDs, ids \in IDLists :
        ReleaseAddresses(c, ids) /\ UNCHANGED <<dhcpVars, concVars, signVars, httpVars, builderVars, leaseVars, staticVars, codecVars>>

PoolNext == PoolReserve \/ PoolRelease

Init ==
    /\ PoolInit /\ ServerInit /\ DhcpInit /\ ConcInit /\ SignInit /\ HttpInit
    /\ BuilderInit /\ LeaseInit /\ StaticInit /\ CodecInit

PoolSpec == Init /\ [][PoolNext]_vars

ServerSpec == Init /\ [][ServerNext]_vars

DhcpSpec == Init /\ [][DhcpNext]_vars

ArchSpec == Init /\ [][ArchNext]_vars

ConcSpec == Init /\ [][ConcNext]_vars

SignSpec == Init /\ [][SignNext]_vars

HttpSpec == Init /\ [][HttpNext]_vars

BuilderSpec == Init /\ [][BuilderNext]_vars

LeaseSpec == Init /\ [][LeaseNext]_vars

StaticSpec == Init /\ [][StaticNext]_vars

CodecSpec == Init /\ [][CodecNext]_vars

\* the scheduler runs every goroutine that can take a step: Serve() goes on
\* once entered, a worker whose listener was closed returns, a send that has
\* room completes.  Nothing obliges a caller to call Serve() or Shutdown(),
\* nor a worker to fail.
FairServerSpec ==
    /\ ServerSpec
    /\ WF_vars(ServeStep /\ UNCHANGED <<poolVars, dhcpVars, concVars, signVars, httpVars, builderVars, leaseVars, staticVars, codecVars>>)
    /\ \A w \in Workers : WF_vars(WorkerClosed(w) /\ UNCHANGED <<poolVars, dhcpVars, concVars, signVars, httpVars, builderVars, leaseVars, staticVars, codecVars>>)
    /\ \A w \in Workers : WF_vars(WorkerSend(w) /\ UNCHANGED <<poolVars, dhcpVars, concVars, signVars, httpVars, builderVars, leaseVars, staticVars, codecVars>>)

(***************************************************************************)
(* Properties of the address pool (checked under PoolSpec).                *)
(***************************************************************************)
Stored == {identityAssociations[h] : h \in DOMAIN identityAssociations}

\* an association is active while the clock is before CreatedAt + validLifetime
Active(a, now) == now < a.CreatedAt + ValidLifetime

\* C1: between calls the number of used addresses equals the number of
\* stored identity associations.
C1_UsedEqualsAssociations ==
    Cardinality(usedIps) = Cardinality(DOMAIN identityAssociations)

\* C2: at most one active association per (clientID, interfaceID) and at
\* most one per address: no two stored, active associations share a tuple
\* or an address.
C2_OneActivePerTupleAndAddress ==
    \A a, b \in {x \in Stored : Active(x, timeNow)} :
        a # b => /\ a.IPAddress # b.IPAddress
                 /\ <<a.ClientID, a.InterfaceID>> # <<b.ClientID, b.InterfaceID>>

\* C3: a stored reservation that is still within its valid lifetime when
\* ReserveAddresses runs (and so was not released since it was made) is
\* still stored after the call, and is what the call returns for its tuple.
C3_ActiveReservationKept ==
    [][lastCall'.op = "reserve" =>
        \A h \in DOMAIN identityAssociations :
            LET a == identityAssociations[h]
            IN  Active(a, timeNow') =>
                  /\ h \in DOMAIN identityAssociations'
                  /\ identityAssociations'[h] = a
                  /\ \A k \in 1..Len(lastCall'.ret) :
                        (/\ lastCall'.clientID = a.ClientID
                         /\ lastCall'.interfaceIDs[k] = a.InterfaceID)
                        => lastCall'.ret[k] = a]_vars

\* number of entries of the expiration queue q that belong to association a
ExpirationsOf(q, a) == Cardinality({i \in 1..Len(q) : q[i].ia = a})

\* C8: ReserveAddresses for a tuple that has an active association returns
\* that association and leaves it, and its expiry, as they were.
C8_ReserveIdempotent ==
    [][lastCall'.op = "reserve" =>
        \A k \in 1..Len(lastCall'.ret) :
            LET h == calculateIAIDHash(lastCall'.clientID, lastCall'.interfaceIDs[k])
            IN  (/\ h \in DOMAIN identityAssociations
                 /\ identityAssociations[h].ClientID = lastCall'.clientID
                 /\ identityAssociations[h].InterfaceID = lastCall'.interfaceIDs[k]
                 /\ Active(identityAssociations[h], timeNow'))
                => /\ lastCall'.ret[k] = identityAssociations[h]
                   /\ h \in DOMAIN identityAssociations'
                   /\ identityAssociations'[h] = identityAssociations[h]
                   /\ ExpirationsOf(identityAssociationExpirations',
                                    identityAssociations[h])
                      = ExpirationsOf(identityAssociationExpirations,
                                      identityAssociations[h])]_vars

\* C9: a ReserveAddresses call at a time t' >= t + validLifetime removes
\* every association created at t and frees its address: after the call no
\* stored association is past its lifetime, an association returned for the
\* tuple of an expired one was created at t', and the address of an expired
\* association is free or was handed out again by this very call.
C9_ExpiredSweptBeforeReserve ==
    lastCall.op = "reserve" =>
        /\ \A a \in Stored : Active(a, timeNow) \/ a.CreatedAt = timeNow
        /\ \A a \in lastCall.expired :
              /\ \A k \in 1..Len(lastCall.ret) :
                    (/\ lastCall.clientID = a.ClientID
                     /\ lastCall.interfaceIDs[k] = a.InterfaceID)
                    => lastCall.ret[k].CreatedAt = timeNow
              /\ \/ a.IPAddress \notin usedIps
                 \/ \E b \in Stored : /\ b.IPAddress = a.IPAddress
                                      /\ b.CreatedAt = timeNow

\* C9 happens: the call found an expired association of the tuple it was
\* asked for and returned a new one, created at the time of the call.
C9_Witness ==
    /\ lastCall.op = "reserve"
    /\ \E a \in lastCall.expired : \E k \in 1..Len(lastCall.ret) :
          /\ lastCall.clientID = a.ClientID
          /\ lastCall.interfaceIDs[k] = a.InterfaceID
          /\ lastCall.ret[k].CreatedAt = timeNow
          /\ lastCall.ret[k] \in Stored
          /\ a \notin Stored

\* C10: the pool never holds more than poolSize used addresses; a call that
\* fails does so with every address in use, at an interface that has no
\* association, and returns the associations of the interfaces before it;
\* a call that does not fail returns one association per interface.
C10_NeverMoreThanSize ==
    /\ Cardinality(usedIps) <= poolSize
    /\ lastCall.op = "reserve" =>
          IF lastCall.err
          THEN /\ Len(lastCall.ret) < Len(lastCall.interfaceIDs)
               /\ Cardinality(usedIps) = poolSize
               /\ calculateIAIDHash(lastCall.clientID,
                      lastCall.interfaceIDs[Len(lastCall.ret) + 1])
                    \notin DOMAIN identityAssociations
               /\ \A k \in 1..Len(lastCall.ret) :
                     LET h == calculateIAIDHash(lastCall.clientID,
                                                lastCall.interfaceIDs[k])
                     IN  /\ h \in DOMAIN identityAssociations
                         /\ identityAssociations[h] = lastCall.ret[k]
          ELSE Len(lastCall.ret) = Len(lastCall.interfaceIDs)

\* C10 happens: the pool is full and a call failed at its second interface,
\* returning the association of the first.
C10_Witness ==
    /\ lastCall.op = "reserve"
    /\ lastCall.err
    /\ Len(lastCall.ret) = 1
    /\ Cardinality(usedIps) = poolSize

(***************************************************************************)
(* Properties of Server.Serve / Server.Shutdown (checked under ServerSpec, *)
(* the liveness ones under FairServerSpec).                                *)
(***************************************************************************)
\* Serve() got as far as reading the channel and took a value from it
TookValue == retval \notin {"none", BindError}

\* C4: Serve() returns exactly once per call, and the value it returns
\* after waiting on the channel is the first value that was delivered to
\* the channel, whatever is delivered afterwards.
C4_ReturnsFirstDelivered ==
    /\ returns = (IF spc = "returned" THEN 1 ELSE 0)
    /\ TookValue => retval = first

\* C4 happens: Serve() has returned the first value while later values sit
\* in the channel, never to be read.
C4_Witness ==
    /\ spc = "returned"
    /\ TookValue
    /\ returns = 1
    /\ Len(sink) >= 2
    /\ \E i \in 1..Len(sink) : sink[i] # retval

\* C5: after a Shutdown() made before Serve() was called, Serve() does not
\* block on the channel and returns nil.
C5_ShutdownBeforeServe ==
    shutdownEarly =>
        /\ spc = "L260" => (sink # <<>> /\ Head(sink) = Nil)
        /\ TookValue => retval = Nil

\* C6: once Serve() has taken the first value and closed the listeners, no
\* worker is stuck in its send: the channel has room for it, however many
\* times Shutdown() was called.
C6_WorkerSendNeverBlocks ==
    \A w \in Workers :
        (spc = "returned" /\ TookValue /\ wpc[w] = "sending") => Len(sink) < ErrsCap

\* C7: once Shutdown() is called while a Serve() call is in progress, that
\* call eventually returns and no listener it bound is left open.
C7_ShutdownEndsServe ==
    shutdownDuring ~> (spc = "returned" /\ \A l \in Workers : socket[l] # "open")

(***************************************************************************)
(* Properties of the DHCPv6 worker (checked under DhcpSpec).               *)
(***************************************************************************)
\* a datagram has been read, and Unmarshal accepted it
Parsed == Len(lastPkt) > 0 /\ Unmarshal(lastPkt[1]) = "ok"

\* the step is one iteration of the serveDHCP loop
Iteration == handled' = handled + 1

\* some Option Request option of the packet lists the boot file URL option
RequestsBootFile(o) ==
    \E i \in 1..Len(o.Oro) : OptBootfileURL \in UnmarshalOptionRequestOption(o.Oro[i])

\* C11: a datagram the codec rejects is dropped without a reply and does not
\* terminate the DHCPv6 worker or Serve().
C11_MalformedDropped ==
    (Len(lastPkt) > 0 /\ Unmarshal(lastPkt[1]) = "error") =>
        /\ lastReplies = <<>>
        /\ v6pc = "running"
        /\ v6serve = "waiting"

\* C12: a Solicit is answered only if it requests option 59, carries a
\* Client-ID and carries no Server-ID; every other Solicit produces no reply
\* and leaves the address pool unchanged.
C12_SolicitFilter ==
    [][(Iteration /\ lastPkt'[1].Type = MsgSolicit) =>
        LET o == lastPkt'[1].Options
            ok == RequestsBootFile(o) /\ Len(o.ClientID) > 0 /\ Len(o.ServerID) = 0
        IN  /\ lastReplies' # <<>> => ok
            /\ ~ok => (lastReplies' = <<>> /\ UNCHANGED poolVars)]_vars

\* C12 happens: a Solicit that names a server was read while the pool held a
\* reservation, and nothing was sent.
C12_Witness ==
    /\ Parsed
    /\ lastPkt[1].Type = MsgSolicit
    /\ RequestsBootFile(lastPkt[1].Options)
    /\ Len(lastPkt[1].Options.ClientID) > 0
    /\ Len(lastPkt[1].Options.ServerID) > 0
    /\ identityAssociations # <<>>
    /\ lastReplies = <<>>
    /\ v6pc = "running"

\* C13: a Request is answered only if it requests option 59, carries a
\* Client-ID and carries a Server-ID equal to the server's DUID; every other
\* Request produces no reply and reserves no address.
C13_RequestFilter ==
    [][(Iteration /\ lastPkt'[1].Type = MsgRequest) =>
        LET o == lastPkt'[1].Options
            ok == /\ RequestsBootFile(o)
                  /\ Len(o.ClientID) > 0
                  /\ Len(o.ServerID) > 0
                  /\ o.ServerID[1] = Duid
        IN  /\ lastReplies' # <<>> => ok
            /\ ~ok => (lastReplies' = <<>> /\ UNCHANGED poolVars)]_vars

\* C13 happens: a Request addressed to another server was read; nothing was
\* sent and the pool holds no reservation.
C13_Witness ==
    /\ Parsed
    /\ lastPkt[1].Type = MsgRequest
    /\ RequestsBootFile(lastPkt[1].Options)
    /\ Len(lastPkt[1].Options.ClientID) > 0
    /\ Len(lastPkt[1].Options.ServerID) > 0
    /\ lastPkt[1].Options.ServerID[1] = OtherDuid
    /\ Len(lastPkt[1].Options.IaNa) > 0
    /\ handled = 1
    /\ identityAssociations = <<>>
    /\ lastReplies = <<>>

\* C14: an Information-Request is answered, with a Reply that carries the
\* boot file URL and no IA_NA, only if it requests option 59, carries neither
\* IA_NA nor IA_TA and has no Server-ID or the server's own; handling an
\* Information-Request never reserves, releases or expires an address.
C14_InformationRequest ==
    [][(Iteration /\ lastPkt'[1].Type = MsgInformationRequest) =>
        LET o == lastPkt'[1].Options
            ok == /\ RequestsBootFile(o)
                  /\ Len(o.IaNa) = 0
                  /\ Len(o.IaTa) = 0
                  /\ (Len(o.ServerID) = 0 \/ o.ServerID[1] = Duid)
        IN  /\ lastReplies' # <<>> =>
                /\ ok
                /\ Len(lastReplies') = 1
                /\ lastReplies'[1].Type = MsgReply
                /\ \E k \in 1..Len(lastReplies'[1].Options) :
                      /\ lastReplies'[1].Options[k].ID = OptBootfileURL
                      /\ lastReplies'[1].Options[k].Value \in {HTTPBootURL, IPxeBootURL}
                /\ \A k \in 1..Len(lastReplies'[1].Options) :
                      lastReplies'[1].Options[k].ID # OptIaNa
            /\ UNCHANGED <<identityAssociations, usedIps,
                           identityAssociationExpirations>>]_vars

\* C14 happens: an Information-Request was answered while the pool held a
\* reservation.
C14_Witness ==
    /\ Parsed
    /\ lastPkt[1].Type = MsgInformationRequest
    /\ Len(lastReplies) = 1
    /\ lastReplies[1].Type = MsgReply
    /\ identityAssociations # <<>>
    /\ usedIps # {}

C16_OtherTypesIgnored ==
    [][(/\ Iteration
        /\ Unmarshal(lastPkt'[1]) = "ok"
        /\ lastPkt'[1].Type \notin {MsgSolicit, MsgRequest,
                                    MsgInformationRequest, MsgRelease}) =>
        /\ lastReplies' = <<>>
        /\ UNCHANGED poolVars
        /\ v6pc' = "running"]_vars

\* C16 happens: a Confirm was read while the pool held a reservation; nothing
\* was sent and the worker is in its loop.
C16_Witness ==
    /\ Parsed
    /\ lastPkt[1].Type = MsgConfirm
    /\ identityAssociations # <<>>
    /\ lastReplies = <<>>
    /\ v6pc = "running"

\* C17: when the pool cannot supply an address for every IA_NA of a Solicit
\* that passed the filter, exactly one Advertise is sent; it carries a Status
\* Code option with code 2 and no IA address.
C17_NoAddrsAvailableAdvertise ==
    (Parsed /\ lastPkt[1].Type = MsgSolicit /\ lastErr = NoMoreAddresses) =>
        /\ Len(lastReplies) = 1
        /\ lastReplies[1].Type = MsgAdvertise
        /\ \E k \in 1..Len(lastReplies[1].Options) :
              /\ lastReplies[1].Options[k].ID = OptStatusCode
              /\ lastReplies[1].Options[k].Value.code = 2
        /\ \A k \in 1..Len(lastReplies[1].Options) :
              /\ lastReplies[1].Options[k].ID # OptIaAddr
              /\ lastReplies[1].Options[k].ID = OptIaNa =>
                    lastReplies[1].Options[k].Value.option.ID # OptIaAddr

\* C17 happens: a Solicit listing two IA_NAs met a pool that ran out of
\* addresses, and a response was sent.
C17_Witness ==
    /\ Parsed
    /\ lastPkt[1].Type = MsgSolicit
    /\ Len(lastPkt[1].Options.IaNa) = 2
    /\ lastErr = NoMoreAddresses
    /\ lastCall.op = "reserve" /\ lastCall.err
    /\ Cardinality(usedIps) = poolSize
    /\ Len(lastReplies) = 1

\* the IA_NA options of the Reply that name iaid
ReplyIaNaFor(iaid) ==
    {k \in 1..Len(lastReplies[1].Options) :
        /\ lastReplies[1].Options[k].ID = OptIaNa
        /\ lastReplies[1].Options[k].Value.iaid = iaid}

\* the reservation of iaid succeeded in the call made for the Request
Reserved(iaid) == \E j \in 1..Len(lastCall.ret) : lastCall.ret[j].InterfaceID = iaid

\* iaid appears in exactly one IA_NA option of the Reply, with an IA Address
\* if its reservation succeeded and with Status Code 2 otherwise
AnsweredOnce(iaid) ==
    /\ Cardinality(ReplyIaNaFor(iaid)) = 1
    /\ \A k \in ReplyIaNaFor(iaid) :
          LET sub == lastReplies[1].Options[k].Value.option
          IN  IF Reserved(iaid)
              THEN sub.ID = OptIaAddr
              ELSE sub.ID = OptStatusCode /\ sub.Value.code = 2

\* the IAIDs of the IA_NA options of the packet read last
SentIAIDs == IaNaIDs(lastPkt[1].Options)

\* C18 as stated: in the Reply to a Request every IAID the client sent
\* appears in exactly one IA_NA option, with an IA Address if its reservation
\* succeeded and with Status Code 2 otherwise.
C18_EveryIAIDOnce ==
    (Parsed /\ lastPkt[1].Type = MsgRequest /\ Len(lastReplies) = 1) =>
        \A i \in 1..Len(SentIAIDs) : AnsweredOnce(SentIAIDs[i])

\* C18 amended: the same, for a Request whose IA_NA options name pairwise
\* distinct IAIDs.
C18_EveryDistinctIAIDOnce ==
    (/\ Parsed
     /\ lastPkt[1].Type = MsgRequest
     /\ Len(lastReplies) = 1
     /\ \A i, j \in 1..Len(SentIAIDs) : SentIAIDs[i] = SentIAIDs[j] => i = j) =>
        \A i \in 1..Len(SentIAIDs) : AnsweredOnce(SentIAIDs[i])

\* C18 happens: the Reply to a Request for two distinct IAIDs carries an
\* address for one and Status Code 2 for the other.
C18_Witness ==
    /\ Parsed
    /\ lastPkt[1].Type = MsgRequest
    /\ Len(lastReplies) = 1
    /\ Len(SentIAIDs) = 2
    /\ SentIAIDs[1] # SentIAIDs[2]
    /\ \E i, j \in 1..2 : Reserved(SentIAIDs[i]) /\ ~Reserved(SentIAIDs[j])
    /\ \A i \in 1..2 : AnsweredOnce(SentIAIDs[i])

(***************************************************************************)
(* Release and first fill of the address pool (checked under PoolSpec).    *)
(***************************************************************************)
\* association a belongs to one of the tuples the call named
NamedBy(call, a) ==
    /\ a.ClientID = call.clientID
    /\ \E k \in 1..Len(call.interfaceIDs) : a.InterfaceID = call.interfaceIDs[k]

\* C19: ReleaseAddresses(clientID, ids) removes exactly the associations of
\* (clientID, id) for id in ids and frees exactly their addresses; every
\* other association and used address is left unchanged, and once every
\* reservation has been released no address is in use.
C19_ReleaseFrame ==
    [][lastCall'.op = "release" =>
        /\ \A h \in DOMAIN identityAssociations :
              IF NamedBy(lastCall', identityAssociations[h])
              THEN h \notin DOMAIN identityAssociations'
              ELSE /\ h \in DOMAIN identityAssociations'
                   /\ identityAssociations'[h] = identityAssociations[h]
        /\ DOMAIN identityAssociations' \subseteq DOMAIN identityAssociations
        /\ usedIps' = usedIps \ {a.IPAddress :
                                    a \in {b \in Stored : NamedBy(lastCall', b)}}
        /\ identityAssociations' = <<>> => usedIps' = {}]_vars

\* C20: reserving poolSize distinct (clientID, interfaceID) tuples in an empty
\* pool, in one call or in two calls made while the first reservation is
\* valid, succeeds for every tuple and yields poolSize pairwise distinct
\* addresses of the range [PoolStart, PoolStart + poolSize).
C20_FillsPoolWithDistinctAddresses ==
    [][lastCall'.op = "reserve" =>
        /\ (/\ identityAssociations = <<>>
            /\ usedIps = {}
            /\ Len(lastCall'.interfaceIDs) = poolSize) =>
               /\ ~lastCall'.err
               /\ Len(lastCall'.ret) = poolSize
               /\ \A i, j \in 1..Len(lastCall'.ret) :
                     lastCall'.ret[i].IPAddress = lastCall'.ret[j].IPAddress => i = j
               /\ \A i \in 1..Len(lastCall'.ret) :
                     lastCall'.ret[i].IPAddress \in PoolStart..(PoolStart + poolSize - 1)
        /\ (/\ poolSize = 2
            /\ lastCall.op = "reserve"
            /\ Len(lastCall.interfaceIDs) = 1
            /\ Len(lastCall.ret) = 1
            /\ Stored = {lastCall.ret[1]}
            /\ Len(identityAssociationExpirations) = 1
            /\ timeNow' < lastCall.ret[1].CreatedAt + ValidLifetime
            /\ Len(lastCall'.interfaceIDs) = 1
            /\ <<lastCall'.clientID, lastCall'.interfaceIDs[1]>>
                  # <<lastCall.clientID, lastCall.interfaceIDs[1]>>) =>
               /\ ~lastCall'.err
               /\ Len(lastCall'.ret) = 1
               /\ lastCall'.ret[1].IPAddress # lastCall.ret[1].IPAddress
               /\ lastCall'.ret[1].IPAddress \in PoolStart..(PoolStart + poolSize - 1)]_vars

\* C21: a successful ReserveAddresses(clientID, [i1..in]) returns exactly n
\* associations, the k-th of which has ClientID = clientID and
\* InterfaceID = ik, whatever associations other tuples hold.
C21_ReturnsOwnAssociations ==
    (lastCall.op = "reserve" /\ ~lastCall.err) =>
        /\ Len(lastCall.ret) = Len(lastCall.interfaceIDs)
        /\ \A k \in 1..Len(lastCall.ret) :
              /\ lastCall.ret[k].ClientID = lastCall.clientID
              /\ lastCall.ret[k].InterfaceID = lastCall.interfaceIDs[k]

\* the call of goroutine g is about to return
Returning(g) ==
    /\ calls[g].pc = "loop"
    /\ calls[g].k > Len(calls[g].interfaceIDs) \/ calls[g].err

\* C22: under any interleaving of concurrent ReserveAddresses and
\* ReleaseAddresses calls every call takes effect atomically (what it returns
\* and the pool it leaves are those of the same call run alone on the pool it
\* found when it took the lock), and two reservations made concurrently, at
\* the same clock reading and for different (client, interface) tuples, never
\* obtain the same address.
C22_ConcurrentCallsAtomic ==
    /\ \A g \in Callers : Returning(g) =>
          LET e == calls[g].expect[1]
          IN  /\ calls[g].ret = e.ret
              /\ calls[g].err = e.err
              /\ identityAssociations = e.ias
              /\ usedIps = e.used
              /\ identityAssociationExpirations = e.q
    /\ \A g, h \in Callers :
          (/\ g # h
           /\ calls[g].pc = "done" /\ calls[h].pc = "done"
           /\ calls[g].op = "reserve" /\ calls[h].op = "reserve"
           /\ ~calls[g].err /\ ~calls[h].err
           /\ calls[g].now = calls[h].now) =>
          \A i \in 1..Len(calls[g].ret), j \in 1..Len(calls[h].ret) :
             <<calls[g].clientID, calls[g].interfaceIDs[i]>>
                   # <<calls[h].clientID, calls[h].interfaceIDs[j]>>
                => calls[g].ret[i].IPAddress # calls[h].ret[j].IPAddress

\* a nil sent by Shutdown() is in the channel, or Serve() has taken it
NilSent == (\E i \in 1..Len(sink) : sink[i] = Nil) \/ retval = Nil

\* C23: Shutdown() can always run to its end, whatever Serve() is doing and
\* however full the channel is, and a Shutdown() made after an earlier one
\* has sent its nil leaves the channel that Serve() and the workers use as
\* it was: calling it again has no further effect on them.
C23_ShutdownIdempotent ==
    [][/\ ENABLED Shutdown
       /\ (Shutdown /\ NilSent) => UNCHANGED sink]_vars

(***************************************************************************)
(* Properties of the signed ids (checked under SignSpec).                  *)
(***************************************************************************)
\* an upstream URL is followed only if it is the one that was signed under
\* the key of this process
C24_FollowsSignedURLsOnly ==
    followed # NoRequest =>
        /\ signed.key = ProcessKey
        /\ followed.url = signed.u

\* C24: ReadBootFile(id) follows an upstream URL only if id verifies under
\* the key of this process; an id that is a signed id with one byte altered,
\* or with a non-empty suffix appended, fails verification and causes no
\* upstream request.
C24_OnlySignedIdsFollowed ==
    /\ C24_FollowsSignedURLsOnly
    /\ (presented # NoID /\ presented # signed.id) =>
          (got.err /\ followed = NoRequest)

\* C25: for every URL u and key k, getURL(signURL(u, k), k) succeeds and
\* returns exactly u.
C25_RoundTrip ==
    signed # NotSigned =>
        /\ getURL(signed.id, signed.key) = [err |-> FALSE, url |-> signed.u]
        /\ (presented = signed.id /\ signed.key = ProcessKey) =>
              got.url = signed.u

C25_Witness ==
    /\ presented = signed.id
    /\ signed.key = ProcessKey
    /\ signed.u # <<>>
    /\ ~got.err
    /\ followed.url = signed.u


\* what the request of /_/ipxe holds: a MAC address and an architecture
\* that is one of the known ones
WellFormedIpxe ==
    /\ hreq.mac # <<>> /\ hreq.arch # <<>>
    /\ ~ParseMAC(hreq.mac).err
    /\ ~Atoi(hreq.arch).err /\ Atoi(hreq.arch).i \in {ArchIA32, ArchX64}

\* the template of a cmdline fails, or what it expands to holds a newline
CmdlineFails(cmdline, host) ==
    LET run == ExecuteTemplate(cmdline, [name |-> "ID", host |-> host])
    IN  \/ run.err # "-"
        \/ \E k \in 1..Len(TrimSpace(run.out)) : TrimSpace(run.out)[k] = 10

\* C26: GET /_/ipxe answers 400 and does not call the Booter when mac or
\* arch is missing or malformed; otherwise it calls BootSpec once and
\* answers 500 on its error, 404 on a nil spec, 500 when the script cannot
\* be assembled (no kernel, the cmdline template fails, a newline in the
\* expanded cmdline) and 200 with the script in every other case
C26_IpxeStatusCodes ==
    hreq.path = "/_/ipxe" =>
        IF ~WellFormedIpxe THEN hresp.code = 400 /\ hbooter = <<>>
        ELSE /\ Len(hbooter) = 1 /\ hbooter[1].op = "BootSpec"
             /\ hbooter[1].mach = [MAC |-> ParseMAC(hreq.mac).mac,
                                   Arch |-> Atoi(hreq.arch).i]
             /\ IF hbooter[1].err THEN hresp.code = 500
                ELSE IF hbooter[1].spec = NilSpec THEN hresp.code = 404
                ELSE IF /\ hbooter[1].spec[1].IpxeScript = <<>>
                        /\ \/ hbooter[1].spec[1].Kernel = <<>>
                           \/ CmdlineFails(hbooter[1].spec[1].Cmdline, hreq.host)
                THEN hresp.code = 500
                ELSE /\ hresp.code = 200
                     /\ Len(hresp.body) = 1
                     /\ hresp.body[1] =
                           [data |-> ipxeScript(hbooter[1].mach, hbooter[1].spec[1],
                                                hreq.host).script]

\* a script was assembled from a kernel, an initrd and a cmdline and sent
C26_Witness ==
    /\ hreq.path = "/_/ipxe" /\ hresp.code = 200
    /\ hbooter[1].spec[1].IpxeScript = <<>>
    /\ hbooter[1].spec[1].Initrd # <<>>
    /\ hbooter[1].spec[1].Cmdline # <<>>


\* the response http.Error makes on a fresh writer for a failed read
FileError == [code |-> 500, body |-> <<[error |-> "couldn't get file"]>>]

\* a request of /_/file that names a file and whose read fails is answered
\* 500 with the fixed text alone
C27_NamedFailedReadIs500 ==
    (hreq.path = "/_/file" /\ hreq.name # <<>> /\ hbooter[1].err) => hresp = FileError

\* C27: whenever ReadBootFile fails for the id of a GET /_/file request the
\* response has status 500 and the body "couldn't get file" and nothing
\* else
C27_FailedReadIs500 ==
    (hreq.path = "/_/file" /\ hbooter[1].err) => hresp = FileError


\* the boot API was asked and answered with a status other than 200
AnsweredNon200 ==
    api # NoAPICall /\ ~api.answer.failed /\ api.answer.status # 200

\* C28 as stated: on a non-200 answer of the boot API BootSpec returns
\* neither a spec nor an error
C28_Non200NoSpecNoError == AnsweredNon200 => api.out = NoSpecNoError

\* C28: on a non-200 answer of the boot API, BootSpec returns no spec and
\* returns an error
C28_Non200NoSpecButError == AnsweredNon200 => api.out = NoSpecButError

\* the boot API was asked for a machine and answered 404
C28_Witness ==
    /\ AnsweredNon200 /\ api.answer.status = 404
    /\ api.asked =
          <<104, 116, 116, 112, 58, 47, 47, 97, 112, 105, 47, 118, 49, 47, 98, 111,
            111, 116, 47, 48, 49, 58, 48, 50, 58, 48, 51, 58, 48, 52, 58, 48, 53,
            58, 48, 54>> (* "http://api/v1/boot/01:02:03:04:05:06" *)


\* w * k as a number of any size: the high half is not cut
Times(w, k) == [hi |-> w.hi * k + (w.lo * k) \div 65536, lo |-> (w.lo * k) % 65536]
Plus(w, n) == [hi |-> w.hi + (w.lo + n) \div 65536, lo |-> (w.lo + n) % 65536]
AtMost(a, b) == a.hi < b.hi \/ (a.hi = b.hi /\ a.lo <= b.lo)
Below(a, b) == a.hi < b.hi \/ (a.hi = b.hi /\ a.lo < b.lo)

\* T1 = floor(p/2) and T2 = floor(4p/5) as numbers, and T1 <= T2 <= p
LifetimesAsClaimed ==
    /\ AtMost(Times(pbuilder.t1, 2), pbuilder.PreferredLifetime)
    /\ Below(pbuilder.PreferredLifetime, Plus(Times(pbuilder.t1, 2), 2))
    /\ AtMost(Times(pbuilder.t2, 5), Times(pbuilder.PreferredLifetime, 4))
    /\ Below(Times(pbuilder.PreferredLifetime, 4), Plus(Times(pbuilder.t2, 5), 5))
    /\ AtMost(pbuilder.t1, pbuilder.t2)
    /\ AtMost(pbuilder.t2, pbuilder.PreferredLifetime)

\* for a preferred lifetime below 2^30 the IA_NA options carry T1 =
\* floor(p/2) and T2 = floor(4p/5), and T1 <= T2 <= p
C29_BelowTwoToThe30 ==
    (pbuilder.made /\ pbuilder.PreferredLifetime.hi < 16384) => LifetimesAsClaimed

\* C29: for every 32-bit preferred lifetime p the IA_NA options carry T1 =
\* floor(p/2) and T2 = floor(4p/5), computed without wrap-around, so that
\* T1 <= T2 <= p
C29_LifetimesWithoutWrap == pbuilder.made => LifetimesAsClaimed


\* "/_/file?name="
FilePath == <<47, 95, 47, 102, 105, 108, 101, 63, 110, 97, 109, 101, 61>>
\* "&type="
TypeParam == <<38, 116, 121, 112, 101, 61>>
\* "&mac="
MacParam == <<38, 109, 97, 99, 61>>
\* "kernel --name kernel "
KernelWords == <<107, 101, 114, 110, 101, 108, 32, 45, 45, 110, 97, 109, 101, 32, 107, 101, 114, 110, 101, 108, 32>>
\* "initrd --name initrd"
InitrdName == <<105, 110, 105, 116, 114, 100, 32, 45, 45, 110, 97, 109, 101, 32, 105, 110, 105, 116, 114, 100>>
\* "imgfetch --name ready "
ImgfetchWords == <<105, 109, 103, 102, 101, 116, 99, 104, 32, 45, 45, 110, 97, 109, 101, 32, 114, 101, 97, 100, 121, 32>>
\* "/_/booting?mac="
BootingPath == <<47, 95, 47, 98, 111, 111, 116, 105, 110, 103, 63, 109, 97, 99, 61>>
\* " ||\n"
OrNothing == <<32, 124, 124, 10>>
\* "initrd=initrd"
InitrdEquals == <<105, 110, 105, 116, 114, 100, 61, 105, 110, 105, 116, 114, 100>>

\* the URL of a file of one kind on /_/file of a host, for a machine
ProxyURL(host, id, kind, mac) ==
    SchemeHTTP \o host \o FilePath \o QueryEscape(id) \o TypeParam \o kind
    \o MacParam \o QueryEscape(MACString(mac))

\* the initrd lines for the entries from the i-th on, numbered from i - 1
RECURSIVE ExpectedInitrdLines(_, _, _, _)
ExpectedInitrdLines(host, initrd, i, mac) ==
    IF i > Len(initrd) THEN <<>>
    ELSE InitrdName \o Itoa(i - 1) \o <<32>>
         \o ProxyURL(host, initrd[i], KindInitrd, mac) \o <<10>>
         \o ExpectedInitrdLines(host, initrd, i + 1, mac)

\* the words initrd=initrd<i> of the boot line, for i to n - 1
RECURSIVE ExpectedInitrdWords(_, _)
ExpectedInitrdWords(n, i) ==
    IF i >= n THEN <<>>
    ELSE InitrdEquals \o Itoa(i) \o <<32>> \o ExpectedInitrdWords(n, i + 1)

\* the script the claim describes for a spec without a raw script
ExpectedScript(mach, spec, host) ==
    Shebang
    \o KernelWords \o ProxyURL(host, spec.Kernel, KindKernel, mach.MAC) \o <<10>>
    \o ExpectedInitrdLines(host, spec.Initrd, 1, mach.MAC)
    \o ImgfetchWords \o SchemeHTTP \o host \o BootingPath
    \o QueryEscape(MACString(mach.MAC)) \o OrNothing
    \o ImgfreeLine
    \o BootKernel \o ExpectedInitrdWords(Len(spec.Initrd), 0)
    \o expandCmdline(spec.Cmdline, [name |-> "ID", host |-> host]).cmdline
    \o <<10>>

\* a script was sent, and it is the raw script of the spec or the script
\* the claim describes
ScriptAsClaimed ==
    hresp.body =
        <<[data |-> IF hbooter[1].spec[1].IpxeScript # <<>>
                    THEN hbooter[1].spec[1].IpxeScript
                    ELSE ExpectedScript(hbooter[1].mach, hbooter[1].spec[1],
                                        hreq.host)]>>

\* on a Host without a '%' the body of a 200 answer of /_/ipxe is the raw
\* script, or the lines in their order with every file URL on that Host
C30_ScriptOnPlainHost ==
    (/\ hreq.path = "/_/ipxe" /\ hresp.code = 200
     /\ \A k \in 1..Len(hreq.host) : hreq.host[k] # 37) => ScriptAsClaimed

\* C30: the body of a 200 answer of /_/ipxe is the raw IpxeScript of the
\* spec if it has one; otherwise it is '#!ipxe', the kernel line, one
\* initrd line per entry in order numbered from 0, the imgfetch and imgfree
\* lines and the boot line naming the initrds and ending in the expanded
\* cmdline, with every file URL pointing at /_/file on the request's Host
C30_ScriptBody ==
    (hreq.path = "/_/ipxe" /\ hresp.code = 200) => ScriptAsClaimed


\* C36: every entry of the expiration queue refers to an association that
\* is stored in the pool under its key, address included: a release cancels
\* the pending expiration of what it releases
C36_QueueRefersToStored ==
    \A i \in 1..Len(identityAssociationExpirations) :
        LET ia == identityAssociationExpirations[i].ia
            h == calculateIAIDHash(ia.ClientID, ia.InterfaceID)
        IN  /\ h \in DOMAIN identityAssociations
            /\ identityAssociations[h] = ia
            /\ ia.IPAddress \in usedIps


\* C39: a GET /_/file without a name is answered 400 with the text
\* "missing filename" and nothing else, and the Booter is not asked to read
\* a file
C39_MissingNameIs400Only ==
    (hreq.path = "/_/file" /\ hreq.name = <<>>) =>
        /\ hresp = [code |-> 400, body |-> <<[error |-> "missing filename"]>>]
        /\ hbooter = <<>>


\* C35: a packet that the discard filter accepts is handled without
\* aborting the DHCPv6 worker: after it the worker is still in its loop,
\* ready for the next packet
C35_AcceptedPacketKeepsWorker ==
    (Parsed /\ ~ShouldDiscard(lastPkt[1], Duid)) => v6pc = "running"


\* the packet names a server, and it is another one
ForOtherServer(p) == HasServerID(p.Options) /\ ServerID(p.Options) # Duid

\* a message other than a Release that names another server leaves the pool
\* as it is
C40_ExceptRelease ==
    [][(/\ Iteration /\ Unmarshal(lastPkt'[1]) = "ok"
        /\ ForOtherServer(lastPkt'[1]) /\ lastPkt'[1].Type # MsgRelease)
          => UNCHANGED poolVars]_vars

\* C40: a message of any type whose Server-ID option is present and is not
\* the DUID of this server neither reserves nor releases an address
C40_OtherServersMessagesLeavePool ==
    [][(Iteration /\ Unmarshal(lastPkt'[1]) = "ok" /\ ForOtherServer(lastPkt'[1]))
          => UNCHANGED <<identityAssociations, usedIps,
                         identityAssociationExpirations>>]_vars


\* the pool once the sweep of the call at clock reading now has run
SweptAt(now) ==
    expireIdentityAssociations([ias |-> identityAssociations, used |-> usedIps,
                                q |-> identityAssociationExpirations], now)

\* the step answers a Solicit with the Advertise that carries the status
\* NoAddrsAvailable
NoAddrsAvailableAdvertised ==
    /\ Iteration
    /\ lastPkt'[1].Type = MsgSolicit
    /\ lastErr' = NoMoreAddresses
    /\ lastReplies' = <<makeMsgAdvertiseWithNoAddrsAvailable(
                           lastPkt'[1].TransactionID, Duid,
                           ClientID(lastPkt'[1].Options), NoMoreAddresses)>>

\* C37: a Solicit that is answered with a NoAddrsAvailable Advertise leaves
\* the reservations as they were before it, the sweep of expired ones
\* aside: nothing stays reserved for the IA_NAs that came before the one
\* that could not be served
C37_NoAddrsLeavesReservations ==
    [][NoAddrsAvailableAdvertised =>
          /\ identityAssociations' = SweptAt(timeNow').ias
          /\ usedIps' = SweptAt(timeNow').used]_vars


\* the step answers a Request of the client with a Reply
RequestReplied ==
    /\ handled' = handled + 1
    /\ lastPkt'[1].Type = MsgRequest
    /\ Len(lastReplies') = 1 /\ lastReplies'[1].Type = MsgReply

\* C38: when an Advertise offered the client address A for its IAID, a
\* Request of the client for that IAID which is processed before the valid
\* lifetime of A has run out, with no Release in between, is answered with
\* a Reply carrying A
C38_RequestGetsOfferedAddress ==
    [][(/\ RequestReplied
        /\ offered # NoOffer
        /\ timeNow' < offered[1].since + ValidLifetime)
          => AddressesFor(lastReplies'[1], SubSeq(IaNaA, 1, 4)) = {offered[1].addr}]_vars


\* the values of the options of a response with the given option ID
ValuesOf(response, id) ==
    {response.Options[k].Value :
        k \in {j \in 1..Len(response.Options) : response.Options[j].ID = id}}

\* the Client Architecture Type option of the packet starts with 00 10
DeclaresHTTPClient(p) ==
    /\ Len(p.Options.ClientArchType) > 0
    /\ SubSeq(p.Options.ClientArchType[1], 1, 2) = <<0, 16>>

\* an Advertise or a Reply with a Boot File URL option
BootAnswer(response) ==
    /\ response.Type \in {MsgAdvertise, MsgReply}
    /\ ValuesOf(response, OptBootfileURL) # {}

BootURLAsDeclared(p, response) ==
    IF DeclaresHTTPClient(p)
    THEN /\ ValuesOf(response, OptBootfileURL) = {HTTPBootURL}
         /\ ValuesOf(response, OptVendorClass) = {"HTTPClient"}
    ELSE /\ ValuesOf(response, OptBootfileURL) = {IPxeBootURL}
         /\ ValuesOf(response, OptVendorClass) = {}

\* C32: an Advertise or Reply with a Boot File URL carries the HTTP-boot URL
\* and a Vendor Class "HTTPClient" exactly when the client's architecture
\* code is 0x0010, and otherwise the iPXE URL and no Vendor Class
C32_BootURLByArchitecture ==
    \A i \in 1..Len(lastReplies) :
        BootAnswer(lastReplies[i]) => BootURLAsDeclared(lastPkt[1], lastReplies[i])

C32_Witness ==
    /\ Len(lastReplies) = 1 /\ BootAnswer(lastReplies[1])
    /\ DeclaresHTTPClient(lastPkt[1])


\* C34: Serve() has bound all four sockets before it starts a worker; when
\* it has returned no socket is open; and when it returned with a socket
\* never bound it returned the bind error and started no worker
C34_BindBeforeWorkers ==
    /\ (\E w \in Workers : wpc[w] # "unstarted")
          => \A l \in Workers : socket[l] # "unbound"
    /\ spc = "returned" => \A l \in Workers : socket[l] # "open"
    /\ (spc = "returned" /\ \E l \in Workers : socket[l] = "unbound")
          => /\ retval = BindError
             /\ \A w \in Workers : wpc[w] = "unstarted"

\* the bind of the HTTP listener failed after the three others were bound
C34_Witness ==
    /\ spc = "returned" /\ retval = BindError
    /\ socket = [l \in Workers |-> IF l = "http" THEN "unbound" ELSE "closed"]


\* the tags a staticBooter publishes
InitrdTags(b) == [i \in 1..Len(b.initrd) |-> InitrdTag \o Itoa(i - 1)]
OtherTags(b) == [i \in 1..Len(b.otherIDs) |-> OtherTag \o Itoa(i - 1)]
Elements(seq) == {seq[i] : i \in 1..Len(seq)}
PublishedTags(b) == {KindKernel} \cup Elements(InitrdTags(b)) \cup Elements(OtherTags(b))

\* the path the booter keeps for a published tag
StoredPath(b, tag) ==
    IF tag = KindKernel THEN b.kernel
    ELSE IF tag \in Elements(InitrdTags(b))
    THEN b.initrd[CHOOSE i \in 1..Len(b.initrd) : InitrdTags(b)[i] = tag]
    ELSE b.otherIDs[CHOOSE i \in 1..Len(b.otherIDs) : OtherTags(b)[i] = tag]

\* the Spec handed out names the kernel, the initrds and the ids of the
\* cmdline by the published tags
SpecOfTags(b, spec) ==
    /\ spec.Kernel = KindKernel
    /\ spec.Initrd = InitrdTags(b)
    /\ StaticExecute(spec.Cmdline, 0).ids = OtherTags(b)

\* ReadBootFile of a published tag opens the path kept for it
OpensStored(b, r) ==
    /\ Len(r.out.opened) = 1
    /\ r.out.opened[1].path = StoredPath(b, r.id)

\* ids that spell the index of a published tag with a sign or with zeros
Aliases(b) ==
    {a \in {t \o x : t \in {InitrdTag, OtherTag}, x \in TagSuffixes} :
        \E tag \in PublishedTags(b) \ {KindKernel} :
            \E n \in 6..7 :
                /\ Len(a) > n /\ Len(tag) > n
                /\ SubSeq(a, 1, n) = SubSeq(tag, 1, n)
                /\ SubSeq(a, 1, n) \in {InitrdTag, OtherTag}
                /\ ~Atoi(SubSeq(a, n + 1, Len(a))).err
                /\ Itoa(Atoi(SubSeq(a, n + 1, Len(a))).i) = SubSeq(tag, n + 1, Len(tag))}
        \ PublishedTags(b)

StaticBooterAsClaimed(b, given, read, exempt) ==
    /\ given # <<>> => (~given[1].err /\ SpecOfTags(b, given[1].spec))
    /\ (read # NoReadYet /\ read[1].id \notin exempt) =>
          IF read[1].id \in PublishedTags(b) THEN OpensStored(b, read[1])
          ELSE read[1].out = NoFileWithID

C31_ExceptAliases ==
    (sbooter # NoStaticBooter /\ ~sbooter[1].err)
        => StaticBooterAsClaimed(sbooter[1], sgot, sread, Aliases(sbooter[1]))

\* C31: a StaticBooter gives every Machine the Spec whose ids are the tags
\* kernel, initrd-i and other-i; ReadBootFile of a published tag opens the
\* path kept for the tag, and of any other id it gives an error and opens
\* nothing
C31_StaticBooterTags ==
    (sbooter # NoStaticBooter /\ ~sbooter[1].err)
        => StaticBooterAsClaimed(sbooter[1], sgot, sread, {})


\* the values of the options of each ID, in their order
ValuesByID(p) ==
    [id \in DOMAIN p.Options |->
        [i \in 1..Len(p.Options[id]) |-> p.Options[id][i].Value]]

StructurallyEqual(p, q) ==
    /\ p.Type = q.Type
    /\ p.TransactionID = q.TransactionID
    /\ ValuesByID(p) = ValuesByID(q)

\* C33: a packet that Unmarshal accepted, marshalled and unmarshalled again,
\* is accepted and has the same message type, the same transaction ID and,
\* for each option ID, the same option values in the same order
C33_RoundTrip ==
    cback # NoPacket =>
        /\ cback.res = "ok"
        /\ StructurallyEqual(cback.p[1], cpkt.p[1])

\* a packet with two options of one ID and one of another, whose bytes
\* came out of Marshal in another order than they were read
C33_Witness ==
    /\ cback.res = "ok"
    /\ \E id \in DOMAIN cpkt.p[1].Options : Len(cpkt.p[1].Options[id]) = 2
    /\ Cardinality(DOMAIN cpkt.p[1].Options) = 2
    /\ cout[1] # SubSeq(cin[1].b, 1, cin[1].n)

====
